---- MODULE Spec2Model ----
(***************************************************************************)
(* Behavioural model of the idli toolchain: the ISA tables (isa.py), the   *)
(* instruction encoder and decoder (isa.py, objdump.py) and the simulator  *)
(* (sim.py), and the assembler (asm.py) with the listing objdump.py makes   *)
(* of its output.  Python integers are unbounded, so values are modelled as *)
(* integers and every mask of the source appears as an explicit modulus.   *)
(***************************************************************************)
EXTENDS Integers, Sequences, FiniteSets, TLC

VARIABLES
    pc,         \* Sim.pc
    regs,       \* Sim.regs: 0..15 -> integer, or None before a first write
    pred,       \* Sim.pred
    cond,       \* Sim.cond
    num_count,  \* Sim.num_count
    max_count,  \* Sim.max_count
    count_op,   \* Sim.count_op: "none" | "carry" | "and" | "or"
    cin,        \* Sim.cin
    ticks,      \* Sim.ticks
    out_pins,   \* Sim.out_pins
    last,       \* observation of the latest tick: what was fetched and where,
                \* whether it ran, and the callbacks it made, in order
    shadow,     \* observation: the latest executed shadow setter, where it was fetched,
                \* the ticks since and whether one of them left the sequence
    counted,    \* observation: the latest executed count-op configurator and the ticks since
    items,      \* asm.py: the items parsed so far, in order, each with the
                \* label reference its imm was written as
    labels,     \* asm.py: label name -> the addresses of its declarations
    need_conds, \* asm.py parse(): the suffixed instructions still owed
    image,      \* the words asm.py encode() has written to the output file
    listing,    \* objdump.py: the items decoded from the file, with their offsets
    stage,      \* how far the assemble job is: "parse", "resolved", "encoded",
                \* "decoded", "merged", or "abort: <reason>" after abort() or an
                \* exception
    cb_mem,     \* sim.py __main__, Cb.mem: the words of the binary, from address 0
    uart_tx,    \* sim.py __main__: the words transmitted so far
    left,       \* sim.py __main__: the iterations of the run loop still to come
    exit_code,  \* sim.py __main__: None until the end marker was seen
    script,     \* sim.py __main__: args, the tick budget and the keys of the test script
    running,    \* how far the run is: "idle", "loop", "ok", or "error: <reason>"
    state,      \* tgen.py: the generator's State (cond, count, used_addrs,
                \* yaml_['output'], finished), the instructions emitted so far
                \* and, as an observation, every word passed to write_uart
    gen,        \* tgen.py __main__: args (num_instr, the mnemonics of the bias),
                \* the iterations still to come and how far the job is
    tb,         \* tb.py TestBench: the UART scoreboard (sim_utx, rtl_utx, ref_utx,
                \* exit_code, end_of_test) with, as an observation, the pairs popped
    sqi,        \* sqi.py Memory: state, mode, addr and data, the clock edge due and,
                \* as an observation, the nibbles taken and returned since CS fell
    wire        \* uart.py: a UTX and the URX its output is wired to, with the words
                \* queued at first and the words the URX callback received

runVars == <<cb_mem, uart_tx, left, exit_code, script, running>>
genVars == <<state, gen>>
benchVars == <<tb, sqi, wire>>
simVars == <<pc, regs, pred, cond, num_count, max_count, count_op, cin, ticks,
             out_pins, last, shadow, counted, runVars, genVars, benchVars>>

asmVars == <<items, labels, need_conds, image, listing, stage>>

vars == <<simVars, asmVars>>

----------------------------------------------------------------------------
(* Integer helpers: Python's &, |, ^, ~, >> on unbounded integers.          *)

\* Python None (an unwritten register or pin): a value no handler can produce.
None == 1000000

Pow2(n) == 2 ^ n

\* Width, in bits, of the two's-complement window the bitwise operators work in;
\* every integer the handlers see lies in -2^(BitWidth-1) .. 2^(BitWidth-1) - 1.
BitWidth == 20

ToWindow(x) == x % Pow2(BitWidth)

FromWindow(u) == ((u + Pow2(BitWidth - 1)) % Pow2(BitWidth)) - Pow2(BitWidth - 1)

\* F(v) with v evaluated once, however often F uses its argument.
Let(v, F(_)) == CHOOSE r \in {F(x) : x \in {v}} : TRUE

Bit(x, i) == (x \div Pow2(i)) % 2

\* x & y for x and y in 0..15.
AndNibble ==
    [x \in 0..15 |-> [y \in 0..15 |->
        Bit(x, 0) * Bit(y, 0) + 2 * Bit(x, 1) * Bit(y, 1)
        + 4 * Bit(x, 2) * Bit(y, 2) + 8 * Bit(x, 3) * Bit(y, 3)]]

\* The bits 0..n-1 of x & y, x | y and x ^ y, for x and y in the window, four
\* bits at a time.
RECURSIVE AndBits(_, _, _)
AndBits(x, y, n) ==
    IF n <= 0 \/ x = 0 \/ y = 0 THEN 0
    ELSE AndNibble[x % 16][y % 16] + 16 * AndBits(x \div 16, y \div 16, n - 4)

OrBits(x, y, n)  == x + y - AndBits(x, y, n)
XorBits(x, y, n) == x + y - 2 * AndBits(x, y, n)

\* x & y, x | y, x ^ y, ~x of Python.
BitAnd(x, y) == FromWindow(AndBits(ToWindow(x), ToWindow(y), BitWidth))
BitOr(x, y)  == FromWindow(OrBits(ToWindow(x), ToWindow(y), BitWidth))
BitXor(x, y) == FromWindow(XorBits(ToWindow(x), ToWindow(y), BitWidth))
BitNot(x)    == -x - 1

\* x >> n and x << n of Python (>> floors, also for negative x).
Shr(x, n) == x \div Pow2(n)
Shl(x, n) == x * Pow2(n)

\* x & 0xffff
Mask16(x) == x % 65536

----------------------------------------------------------------------------
(* isa.py: registers and the encoding table.                                *)

REG_ZR == 0
REG_LR == 14
REG_SP == 15

ENCODINGS ==
          "add"    :> <<"0", "0", "0", "0", "a", "a", "a", "a", "b", "b", "b", "b", "c", "c", "c", "c">>
       @@ "sub"    :> <<"0", "0", "0", "1", "a", "a", "a", "a", "b", "b", "b", "b", "c", "c", "c", "c">>
       @@ "and"    :> <<"0", "0", "1", "0", "a", "a", "a", "a", "b", "b", "b", "b", "c", "c", "c", "c">>
       @@ "andn"   :> <<"0", "0", "1", "1", "a", "a", "a", "a", "b", "b", "b", "b", "c", "c", "c", "c">>
       @@ "or"     :> <<"0", "1", "0", "0", "a", "a", "a", "a", "b", "b", "b", "b", "c", "c", "c", "c">>
       @@ "xor"    :> <<"0", "1", "0", "1", "a", "a", "a", "a", "b", "b", "b", "b", "c", "c", "c", "c">>
       @@ "ld"     :> <<"0", "1", "1", "0", "a", "a", "a", "a", "b", "b", "b", "b", "c", "c", "c", "c">>
       @@ "st"     :> <<"0", "1", "1", "1", "a", "a", "a", "a", "b", "b", "b", "b", "c", "c", "c", "c">>
       @@ "ldm"    :> <<"1", "0", "0", "0", "r", "r", "r", "r", "s", "s", "s", "s", "b", "b", "b", "b">>
       @@ "stm"    :> <<"1", "0", "0", "1", "r", "r", "r", "r", "s", "s", "s", "s", "b", "b", "b", "b">>
       @@ "ld+"    :> <<"1", "0", "1", "0", "a", "a", "a", "a", "b", "b", "b", "b", "0", "0", "0", "0">>
       @@ "st+"    :> <<"1", "0", "1", "0", "a", "a", "a", "a", "b", "b", "b", "b", "0", "0", "0", "1">>
       @@ "+ld"    :> <<"1", "0", "1", "0", "a", "a", "a", "a", "b", "b", "b", "b", "0", "0", "1", "0">>
       @@ "+st"    :> <<"1", "0", "1", "0", "a", "a", "a", "a", "b", "b", "b", "b", "0", "0", "1", "1">>
       @@ "ld-"    :> <<"1", "0", "1", "0", "a", "a", "a", "a", "b", "b", "b", "b", "0", "1", "0", "0">>
       @@ "st-"    :> <<"1", "0", "1", "0", "a", "a", "a", "a", "b", "b", "b", "b", "0", "1", "0", "1">>
       @@ "-ld"    :> <<"1", "0", "1", "0", "a", "a", "a", "a", "b", "b", "b", "b", "0", "1", "1", "0">>
       @@ "-st"    :> <<"1", "0", "1", "0", "a", "a", "a", "a", "b", "b", "b", "b", "0", "1", "1", "1">>
       @@ "inc"    :> <<"1", "0", "1", "0", "a", "a", "a", "a", "b", "b", "b", "b", "1", "0", "0", "0">>
       @@ "dec"    :> <<"1", "0", "1", "0", "a", "a", "a", "a", "b", "b", "b", "b", "1", "0", "0", "1">>
       @@ "srl"    :> <<"1", "0", "1", "0", "a", "a", "a", "a", "b", "b", "b", "b", "1", "0", "1", "0">>
       @@ "sra"    :> <<"1", "0", "1", "0", "a", "a", "a", "a", "b", "b", "b", "b", "1", "0", "1", "1">>
       @@ "ror"    :> <<"1", "0", "1", "0", "a", "a", "a", "a", "b", "b", "b", "b", "1", "1", "0", "0">>
       @@ "rol"    :> <<"1", "0", "1", "0", "a", "a", "a", "a", "b", "b", "b", "b", "1", "1", "0", "1">>
       @@ "not"    :> <<"1", "0", "1", "0", "a", "a", "a", "a", "b", "b", "b", "b", "1", "1", "1", "0">>
       @@ "eq"     :> <<"1", "0", "1", "1", "0", "0", "0", "0", "b", "b", "b", "b", "c", "c", "c", "c">>
       @@ "ne"     :> <<"1", "0", "1", "1", "0", "0", "0", "1", "b", "b", "b", "b", "c", "c", "c", "c">>
       @@ "lt"     :> <<"1", "0", "1", "1", "0", "0", "1", "0", "b", "b", "b", "b", "c", "c", "c", "c">>
       @@ "ltu"    :> <<"1", "0", "1", "1", "0", "0", "1", "1", "b", "b", "b", "b", "c", "c", "c", "c">>
       @@ "ge"     :> <<"1", "0", "1", "1", "0", "1", "0", "0", "b", "b", "b", "b", "c", "c", "c", "c">>
       @@ "geu"    :> <<"1", "0", "1", "1", "0", "1", "0", "1", "b", "b", "b", "b", "c", "c", "c", "c">>
       @@ "any"    :> <<"1", "0", "1", "1", "0", "1", "1", "0", "b", "b", "b", "b", "c", "c", "c", "c">>
       @@ "inp"    :> <<"1", "0", "1", "1", "0", "1", "1", "1", "?", "?", "n", "n", "0", "0", "0", "0">>
       @@ "eqx"    :> <<"1", "0", "1", "1", "1", "0", "0", "0", "b", "b", "b", "b", "c", "c", "c", "c">>
       @@ "nex"    :> <<"1", "0", "1", "1", "1", "0", "0", "1", "b", "b", "b", "b", "c", "c", "c", "c">>
       @@ "ltx"    :> <<"1", "0", "1", "1", "1", "0", "1", "0", "b", "b", "b", "b", "c", "c", "c", "c">>
       @@ "ltux"   :> <<"1", "0", "1", "1", "1", "0", "1", "1", "b", "b", "b", "b", "c", "c", "c", "c">>
       @@ "gex"    :> <<"1", "0", "1", "1", "1", "1", "0", "0", "b", "b", "b", "b", "c", "c", "c", "c">>
       @@ "geux"   :> <<"1", "0", "1", "1", "1", "1", "0", "1", "b", "b", "b", "b", "c", "c", "c", "c">>
       @@ "anyx"   :> <<"1", "0", "1", "1", "1", "1", "1", "0", "b", "b", "b", "b", "c", "c", "c", "c">>
       @@ "inpx"   :> <<"1", "0", "1", "1", "1", "1", "1", "1", "?", "?", "n", "n", "0", "0", "0", "0">>
       @@ "addpc"  :> <<"1", "1", "0", "0", "a", "a", "a", "a", "?", "?", "?", "0", "c", "c", "c", "c">>
       @@ "b"      :> <<"1", "1", "0", "0", "?", "?", "0", "0", "?", "?", "?", "1", "c", "c", "c", "c">>
       @@ "j"      :> <<"1", "1", "0", "0", "?", "?", "0", "1", "?", "?", "?", "1", "c", "c", "c", "c">>
       @@ "bl"     :> <<"1", "1", "0", "0", "?", "?", "1", "0", "?", "?", "?", "1", "c", "c", "c", "c">>
       @@ "jl"     :> <<"1", "1", "0", "0", "?", "?", "1", "1", "?", "?", "?", "1", "c", "c", "c", "c">>
       @@ "in"     :> <<"1", "1", "0", "1", "?", "?", "?", "0", "0", "0", "n", "n", "a", "a", "a", "a">>
       @@ "out"    :> <<"1", "1", "0", "1", "?", "?", "?", "0", "0", "1", "n", "n", "c", "c", "c", "c">>
       @@ "outn"   :> <<"1", "1", "0", "1", "?", "?", "?", "0", "1", "0", "n", "n", "c", "c", "c", "c">>
       @@ "outp"   :> <<"1", "1", "0", "1", "?", "?", "?", "0", "1", "1", "n", "n", "0", "0", "0", "0">>
       @@ "urx"    :> <<"1", "1", "0", "1", "?", "?", "?", "1", "?", "?", "0", "0", "a", "a", "a", "a">>
       @@ "utx"    :> <<"1", "1", "0", "1", "?", "?", "?", "1", "?", "?", "0", "1", "c", "c", "c", "c">>
       @@ "getp"   :> <<"1", "1", "0", "1", "?", "?", "?", "1", "?", "?", "1", "0", "a", "a", "a", "a">>
       @@ "putp"   :> <<"1", "1", "0", "1", "?", "?", "?", "1", "?", "?", "1", "1", "c", "c", "c", "c">>
       @@ "cex"    :> <<"1", "1", "1", "0", "?", "?", "?", "0", "m", "m", "m", "m", "m", "m", "m", "m">>
       @@ "carry"  :> <<"1", "1", "1", "0", "?", "?", "?", "1", "?", "?", "0", "0", "j", "j", "j", "j">>
       @@ "andp"   :> <<"1", "1", "1", "0", "?", "?", "?", "1", "?", "?", "0", "1", "j", "j", "j", "j">>
       @@ "orp"    :> <<"1", "1", "1", "0", "?", "?", "?", "1", "?", "?", "1", "0", "j", "j", "j", "j">>

Mnemonics == DOMAIN ENCODINGS

\* The operand letters of an encoding string.
OperandLetters == {"a", "b", "c", "r", "s", "m", "n", "j"}

\* The integer whose binary digits are given by bit[1..16], most significant first.
RECURSIVE BitsToInt(_, _)
BitsToInt(bit, n) == IF n = 0 THEN 0 ELSE 2 * BitsToInt(bit, n - 1) + bit[n]

OPCODES ==
    [k \in Mnemonics |->
        Let([i \in 1..16 |-> IF ENCODINGS[k][i] = "1" THEN 1 ELSE 0],
            LAMBDA bit : BitsToInt(bit, 16))]

OPCODE_MASKS ==
    [k \in Mnemonics |->
        Let([i \in 1..16 |-> IF ENCODINGS[k][i] \in {"0", "1"} THEN 1 ELSE 0],
            LAMBDA bit : BitsToInt(bit, 16))]

\* The operand letters of mnemonic k and the width of each field.
OpsOf(k) == {ENCODINGS[k][i] : i \in 1..16} \cap OperandLetters

FieldMask(k, x) ==
    Let([i \in 1..16 |-> IF ENCODINGS[k][i] = x THEN 1 ELSE 0],
        LAMBDA bit : BitsToInt(bit, 16))

FieldWidth(k, x) == Cardinality({i \in 1..16 : ENCODINGS[k][i] = x})

\* (mask & -mask).bit_length() - 1: the position of the lowest set bit.
LowBit(mask) == CHOOSE i \in 0..15 : Bit(mask, i) = 1 /\ \A j \in 0..(i - 1) : Bit(mask, j) = 0

CMPX == {"eqx", "nex", "ltx", "ltux", "gex", "geux", "anyx", "inpx"}

\* struct.unpack('>h') and struct.pack('>h') on one 16-bit word.
UnpackSigned(w) == IF w >= 32768 THEN w - 65536 ELSE w
PackSignedOk(v) == v >= -32768 /\ v <= 32767
PackSigned(v)   == v % 65536

----------------------------------------------------------------------------
(* isa.py: Instruction.  An instruction is [mnem, ops, cond, cex_mask]; ops *)
(* is a function from operand names to values, "imm" among them when the    *)
(* instruction carries an immediate; cond is "none", ".t" or ".f".          *)

Instruction(mnem, ops, tag, cex_mask) ==
    [mnem |-> mnem, ops |-> ops, cond |-> tag, cex_mask |-> cex_mask]

HasImm(instr) == "imm" \in DOMAIN instr.ops

\* A size that counts the first word only.
SizeOne(instr) == 1

\* Instruction.size
Size(instr) == 1 + (IF HasImm(instr) THEN 1 ELSE 0)

\* Instruction.num_cond
NumCond(instr) ==
    IF instr.mnem \in CMPX THEN 1
    ELSE IF "m" \in DOMAIN instr.ops THEN instr.ops["m"] ELSE 0

\* The value encode() inserts for M: a terminating one above one bit per follower.
RECURSIVE CexMaskBits(_, _)
CexMaskBits(followers, v) ==
    IF v = 0 THEN 0
    ELSE CexMaskBits(followers, v - 1)
         + Shl(IF followers[v].cond = ".t" THEN 1 ELSE 0, v - 1)

EncodeMask(followers, v) == BitOr(Shl(1, v), CexMaskBits(followers, v))

\* The value placed in field k: the operand, or the mask computed for M.
EncodedOperand(instr, followers, k) ==
    IF k = "m" THEN EncodeMask(followers, instr.ops[k]) ELSE instr.ops[k]

\* Where encode() raises: too few followers, a follower without cond, an operand
\* that does not fit its field, or an immediate struct.pack('>h') rejects.
EncodeOk(instr, followers) ==
    /\ \A k \in DOMAIN instr.ops \ {"imm"} :
        /\ k = "m" =>
            /\ Len(followers) >= instr.ops[k]
            /\ \A i \in 1..instr.ops[k] : followers[i].cond # "none"
        /\ LET v == EncodedOperand(instr, followers, k)
           IN  v >= 0 /\ v < Pow2(FieldWidth(instr.mnem, k))
    /\ HasImm(instr) => PackSignedOk(instr.ops["imm"])

\* The first word: '?' as 0, and the bits of each operand, most significant
\* first, in the positions of its letter from left to right.
EncodeBit(instr, followers, i) ==
    LET ch == ENCODINGS[instr.mnem][i]
    IN  IF ch = "1" THEN 1
        ELSE IF ch \in {"0", "?"} THEN 0
        ELSE IF ch \notin DOMAIN instr.ops THEN 0
        ELSE LET idx   == Cardinality({j \in 1..i : ENCODINGS[instr.mnem][j] = ch})
                 space == FieldWidth(instr.mnem, ch)
             IN  Shr(EncodedOperand(instr, followers, ch), space - idx) % 2

\* Instruction.encode: the words of the instruction (valid where EncodeOk holds).
Encode(instr, followers) ==
    LET word == Let([i \in 1..16 |-> EncodeBit(instr, followers, i)],
                    LAMBDA bit : BitsToInt(bit, 16))
    IN  IF HasImm(instr) THEN <<word, PackSigned(instr.ops["imm"])>> ELSE <<word>>

----------------------------------------------------------------------------
(* objdump.py: decode.                                                      *)

\* _parse_op_m: the follower tags of a mask, first follower first.
RECURSIVE ParseOpM(_)
ParseOpM(enc) ==
    IF enc = 1 THEN <<>>
    ELSE <<IF enc % 2 = 1 THEN "t" ELSE "f">> \o ParseOpM(enc \div 2)

\* A match that tests the one bits of the opcode only.
MatchesOnes(enc) == {k \in Mnemonics : BitAnd(enc, OPCODES[k]) = OPCODES[k]}

\* The mnemonics whose opcode bits match the word.
Matches(enc) == {k \in Mnemonics : BitAnd(enc, OPCODE_MASKS[k]) = OPCODES[k]}

DecodeOk(enc) == Cardinality(Matches(enc)) = 1

\* One pass of decode's loop on the word enc followed by the word nxt, with
\* cond_state the tags still owed by an earlier shadow setter.
DecodeOps(mnem, enc) ==
    [x \in OpsOf(mnem) |->
        Let(FieldMask(mnem, x), LAMBDA mask : Shr(BitAnd(enc, mask), LowBit(mask)))]

DecodeFields(mnem, raw, nxt, cond_state) ==
    LET imm  == IF "c" \in DOMAIN raw /\ raw["c"] = REG_SP
                THEN raw @@ ("imm" :> UnpackSigned(nxt)) ELSE raw
        hasM == "m" \in DOMAIN raw /\ raw["m"] # 0
        ops  == IF hasM THEN [imm EXCEPT !["m"] = Len(ParseOpM(raw["m"]))] ELSE imm
        cnd  == IF cond_state = <<>> THEN "none"
                ELSE IF Head(cond_state) = "t" THEN ".t" ELSE ".f"
    IN  Instruction(mnem, ops, cnd, IF hasM THEN raw["m"] ELSE None)

DecodeItem(enc, nxt, cond_state) ==
    Let(CHOOSE k \in Matches(enc) : TRUE,
        LAMBDA mnem : Let(DecodeOps(mnem, enc),
                          LAMBDA raw : DecodeFields(mnem, raw, nxt, cond_state)))

\* The tags decode() owes after an item.
DecodeCondState(enc, item, cond_state) ==
    IF NumCond(item) # 0
    THEN IF item.mnem = "cex" THEN ParseOpM(item.cex_mask) ELSE <<"t">>
    ELSE IF cond_state = <<>> THEN <<>> ELSE Tail(cond_state)

----------------------------------------------------------------------------
(* sim.py: the simulator.  A handler works on a machine record m that holds *)
(* the fields of Sim together with calls, the callbacks made so far in this *)
(* tick, redirect, the handler's return value, and ok, which is FALSE once  *)
(* Python would have raised (an operation on None): the tick then never     *)
(* completes and the simulator is abandoned.                                *)

Call(name, x, y) == [cb |-> name, x |-> x, y |-> y]

BoolInt(v) == IF v THEN 1 ELSE 0

Raise(m) == [m EXCEPT !.ok = FALSE]

\* Sim._write_reg as it would be without the guard on the zero register.
WriteRegUnguarded(m, reg, value) ==
    [m EXCEPT !.regs[reg] = value,
              !.calls = Append(@, Call("write_reg", reg, value))]

\* Sim._write_reg
WriteReg(m, reg, value) ==
    IF reg = 0 THEN m
    ELSE [m EXCEPT !.regs[reg] = value,
                   !.calls = Append(@, Call("write_reg", reg, value))]

\* Sim._write_pred, value a boolean
WritePred(m, value) ==
    LET v == IF m.count_op = "and" THEN m.pred /\ value
             ELSE IF m.count_op = "or" THEN m.pred \/ value
             ELSE value
    IN  [m EXCEPT !.pred = v, !.calls = Append(@, Call("write_pred", BoolInt(v), 0))]

\* Sim._write_cond
WriteCond(m, value) ==
    IF value = None THEN Raise(m)
    ELSE [m EXCEPT !.cond = value, !.calls = Append(@, Call("write_cond", value, 0))]

\* Sim._write_out_pin
WriteOutPin(m, pin, value) ==
    [m EXCEPT !.out_pins[pin] = value,
              !.calls = Append(@, Call("write_pin", pin, value))]

\* Sim._u2s
U2S(value) == IF Shr(value, 15) % 2 = 1 THEN value - 65536 ELSE value

\* self.regs[c] if c != isa.REGS['sp'] else imm
Operand(m, ops) == IF ops["c"] # REG_SP THEN m.regs[ops["c"]] ELSE ops["imm"]

\* cin as the add, sub and shift handlers take it
CarryIn(m) ==
    IF m.count_op = "carry" /\ m.num_count < m.max_count THEN m.cin ELSE 0

\* Sim._add_sub
AddSub(m, mnem, ops) ==
    LET lhs == m.regs[ops["b"]]
        rhs == Operand(m, ops)
        sum == IF mnem = "add" THEN lhs + rhs + CarryIn(m) ELSE lhs - rhs - CarryIn(m)
    IN  IF lhs = None \/ rhs = None THEN Raise(m)
        ELSE WriteReg([m EXCEPT !.cin = Shr(sum, 16) % 2], ops["a"], Mask16(sum))

\* Sim._cmp: the boolean a comparison computes
CmpValue(mnem, lhs, rhs) ==
    IF mnem \in {"eq", "eqx"} THEN lhs = rhs
    ELSE IF mnem \in {"ne", "nex"} THEN lhs # rhs
    ELSE IF mnem \in {"lt", "ltx"} THEN U2S(lhs) < U2S(rhs)
    ELSE IF mnem \in {"ltu", "ltux"} THEN lhs < rhs
    ELSE IF mnem \in {"ge", "gex"} THEN U2S(lhs) >= U2S(rhs)
    ELSE IF mnem \in {"geu", "geux"} THEN lhs >= rhs
    ELSE BitAnd(lhs, rhs) # 0

\* Sim._cmp as it would be if an x compare announced two true followers.
CmpTwoFollowers(m, mnem, ops) ==
    LET lhs == m.regs[ops["b"]]
        rhs == Operand(m, ops)
    IN  IF rhs = None THEN Raise(m)
        ELSE IF lhs = None /\ mnem \notin {"eq", "eqx", "ne", "nex"} THEN Raise(m)
        ELSE LET w == WritePred(m, CmpValue(mnem, lhs, Mask16(rhs)))
             IN  IF mnem \in CMPX THEN WriteCond(w, 7) ELSE w

\* Sim._cmp; an unwritten lhs compares unequal to every number, and raises in
\* the ordered and bitwise comparisons.
Cmp(m, mnem, ops) ==
    LET lhs == m.regs[ops["b"]]
        rhs == Operand(m, ops)
    IN  IF rhs = None THEN Raise(m)
        ELSE IF lhs = None /\ mnem \notin {"eq", "eqx", "ne", "nex"} THEN Raise(m)
        ELSE LET w == WritePred(m, CmpValue(mnem, lhs, Mask16(rhs)))
             IN  IF mnem \in CMPX THEN WriteCond(w, 3) ELSE w

\* The link value _jmp writes: self.pc + int(imm is not None)
LinkValue(m, ops) == Mask16(m.pc + (IF "imm" \in DOMAIN ops THEN 1 ELSE 0))

\* Sim._jmp
Jmp(m, mnem, ops) ==
    LET rhs    == Operand(m, ops)
        isB    == mnem \in {"b", "bl"}
        target == IF isB THEN Mask16(m.pc + U2S(rhs)) ELSE Mask16(rhs)
        linked == IF mnem \in {"bl", "jl"} THEN WriteReg(m, REG_LR, LinkValue(m, ops)) ELSE m
    IN  IF rhs = None THEN Raise(m)
        ELSE [linked EXCEPT !.redirect = target]

\* Sim._utx
Utx(m, mnem, ops) ==
    LET value == Operand(m, ops)
    IN  IF value = None THEN Raise(m)
        ELSE [m EXCEPT !.calls = Append(@, Call("write_uart", Mask16(value), 0))]

\* Sim._urx, word what the callback returns
Urx(m, mnem, ops, word) ==
    WriteReg([m EXCEPT !.calls = Append(@, Call("read_uart", 0, word))],
             ops["a"], Mask16(word))

\* Sim._cex as it would be given the decoder's m, the number of followers.
CexFromCount(m, mnem, instr) == WriteCond(m, instr.ops["m"])

\* Sim._cex, with m the stored mask (tick lines 161-163)
Cex(m, mnem, instr) == WriteCond(m, instr.cex_mask)

\* Sim._inc_dec
IncDec(m, mnem, ops) ==
    LET lhs == m.regs[ops["b"]]
    IN  IF lhs = None THEN Raise(m)
        ELSE WriteReg(m, ops["a"], Mask16(lhs + (IF mnem = "inc" THEN 1 ELSE -1)))

\* What cb.read_mem returns at addr: the callback is free, and is drawn per tick
\* as either a fixed word or the low 16 bits of the address itself.
ReadMem(sel, addr) == IF sel.byAddr THEN Mask16(addr) ELSE sel.word

\* The offset and the address of _st and _ld
MemOffset(m, mnem, ops) ==
    IF "c" \in DOMAIN ops THEN Operand(m, ops)
    ELSE IF mnem \in {"ld+", "st+", "+ld", "+st"} THEN 1 ELSE -1

PostForm(mnem) == mnem \in {"ld+", "st+", "ld-", "st-"}
PreForm(mnem)  == mnem \in {"+ld", "+st", "-ld", "-st"}

\* An address computation in which a pre-form accesses the old base.
MemAddrOldBase(m, mnem, ops) ==
    LET base == m.regs[ops["b"]]
    IN  Mask16(IF PostForm(mnem) \/ PreForm(mnem) THEN base
               ELSE base + MemOffset(m, mnem, ops))

MemAddr(m, mnem, ops) ==
    LET base == m.regs[ops["b"]]
    IN  Mask16(IF PostForm(mnem) THEN base ELSE base + MemOffset(m, mnem, ops))

\* A store that reads its datum before any write back.
StDatumFirst(m, mnem, ops) ==
    LET base   == m.regs[ops["b"]]
        offset == MemOffset(m, mnem, ops)
        addr   == MemAddr(m, mnem, ops)
        data   == m.regs[ops["a"]]
        pre    == IF PreForm(mnem) THEN WriteReg(m, ops["b"], addr) ELSE m
        stored == [pre EXCEPT !.calls = Append(@, Call("write_mem", addr, data))]
    IN  IF base = None \/ offset = None \/ data = None THEN Raise(m)
        ELSE IF PostForm(mnem) THEN WriteReg(stored, ops["b"], Mask16(base + offset))
        ELSE stored

\* Sim._st: the datum is read after the write back of a pre-form.
St(m, mnem, ops) ==
    LET base   == m.regs[ops["b"]]
        offset == MemOffset(m, mnem, ops)
        addr   == MemAddr(m, mnem, ops)
        pre    == IF PreForm(mnem) THEN WriteReg(m, ops["b"], addr) ELSE m
        data   == pre.regs[ops["a"]]
        stored == [pre EXCEPT !.calls = Append(@, Call("write_mem", addr, data))]
    IN  IF base = None \/ offset = None \/ data = None THEN Raise(m)
        ELSE IF PostForm(mnem) THEN WriteReg(stored, ops["b"], Mask16(base + offset))
        ELSE stored

\* A load that writes the loaded word before the write back of a post-form.
LdThenWriteback(m, mnem, ops, sel) ==
    LET base   == m.regs[ops["b"]]
        offset == MemOffset(m, mnem, ops)
        addr   == MemAddr(m, mnem, ops)
        pre    == IF PreForm(mnem) THEN WriteReg(m, ops["b"], addr) ELSE m
        data   == ReadMem(sel, addr)
        loaded == WriteReg([pre EXCEPT !.calls = Append(@, Call("read_mem", addr, data))],
                           ops["a"], data)
    IN  IF base = None \/ offset = None THEN Raise(m)
        ELSE IF PostForm(mnem) THEN WriteReg(loaded, ops["b"], Mask16(base + offset))
        ELSE loaded

\* Sim._ld
Ld(m, mnem, ops, sel) ==
    LET base   == m.regs[ops["b"]]
        offset == MemOffset(m, mnem, ops)
        addr   == MemAddr(m, mnem, ops)
        pre    == IF PreForm(mnem) THEN WriteReg(m, ops["b"], addr) ELSE m
        data   == ReadMem(sel, addr)
        loaded == [pre EXCEPT !.calls = Append(@, Call("read_mem", addr, data))]
        post   == IF PostForm(mnem) THEN WriteReg(loaded, ops["b"], Mask16(base + offset))
                  ELSE loaded
    IN  IF base = None \/ offset = None THEN Raise(m)
        ELSE WriteReg(post, ops["a"], data)

\* Sim._ldstm: the loop from register r at address addr up to register s.
RECURSIVE LdStmLoop(_, _, _, _, _, _)
LdStmLoop(m, mnem, r, s, addr, sel) ==
    LET data == IF mnem = "stm" THEN m.regs[r] ELSE ReadMem(sel, addr)
        done == IF mnem = "stm"
                THEN [m EXCEPT !.calls = Append(@, Call("write_mem", addr, data))]
                ELSE WriteReg([m EXCEPT !.calls = Append(@, Call("read_mem", addr, data))],
                              r, data)
    IN  IF data = None THEN Raise(m)
        ELSE IF r = s THEN done
        ELSE Let(done, LAMBDA d :
                 Let(Mask16(addr + 1), LAMBDA next :
                     LdStmLoop(d, mnem, (r + 1) % 16, s, next, sel)))

LdStm(m, mnem, ops, sel) ==
    IF m.regs[ops["b"]] = None THEN Raise(m)
    ELSE Let(m.regs[ops["b"]], LAMBDA addr :
             LdStmLoop(m, mnem, ops["r"], ops["s"], addr, sel))

\* Sim._addpc
AddPc(m, mnem, ops) ==
    LET rhs == Operand(m, ops)
    IN  IF rhs = None THEN Raise(m) ELSE WriteReg(m, ops["a"], Mask16(m.pc + rhs))

\* Sim._bitwise: the value is written as computed, without a mask.
BitwiseValue(mnem, lhs, rhs) ==
    IF mnem = "and" THEN BitAnd(lhs, rhs)
    ELSE IF mnem = "andn" THEN BitAnd(lhs, BitNot(rhs))
    ELSE IF mnem = "or" THEN BitOr(lhs, rhs)
    ELSE BitXor(lhs, rhs)

Bitwise(m, mnem, ops) ==
    LET lhs == m.regs[ops["b"]]
        rhs == Operand(m, ops)
    IN  IF lhs = None \/ rhs = None THEN Raise(m)
        ELSE WriteReg(m, ops["a"], BitwiseValue(mnem, lhs, rhs))

\* A shift in which srl never takes the latched carry.
ShiftValueNoCarry(mnem, value, carryIn) ==
    IF mnem = "srl" THEN Shr(value, 1)
    ELSE IF mnem = "sra" THEN BitOr(Shr(value, 1), BitAnd(Shl(Shr(value, 1), 1), 32768))
    ELSE IF mnem = "ror" THEN Shr(BitOr(value, Shl(value % 2, 16)), 1)
    ELSE Mask16(BitOr(Shl(value, 1), Shr(Shl(value, 1), 16)))

\* Sim._shift: the value written, and the bit latched into cin
ShiftValue(mnem, value, carryIn) ==
    IF mnem = "srl" THEN BitOr(Shr(value, 1), Shl(carryIn, 15))
    ELSE IF mnem = "sra" THEN BitOr(Shr(value, 1), BitAnd(Shl(Shr(value, 1), 1), 32768))
    ELSE IF mnem = "ror" THEN Shr(BitOr(value, Shl(value % 2, 16)), 1)
    ELSE Mask16(BitOr(Shl(value, 1), Shr(Shl(value, 1), 16)))

ShiftCarry(mnem, value) == IF mnem = "rol" THEN Shr(value, 15) % 2 ELSE value % 2

Shift(m, mnem, ops) ==
    LET src   == m.regs[ops["b"]]
        value == Mask16(src)
    IN  IF src = None THEN Raise(m)
        ELSE WriteReg([m EXCEPT !.cin = ShiftCarry(mnem, value)], ops["a"],
                      ShiftValue(mnem, value, CarryIn(m)))

\* Sim._carry
Carry(m, mnem, ops) ==
    [m EXCEPT !.num_count = -1, !.max_count = ops["j"], !.count_op = "carry", !.cin = 0]

\* Sim._andor_p
AndOrP(m, mnem, ops) ==
    [m EXCEPT !.num_count = -1, !.max_count = ops["j"],
              !.count_op = IF mnem = "andp" THEN "and" ELSE "or"]

\* Sim._not
Not(m, mnem, ops) ==
    LET src == m.regs[ops["b"]]
    IN  IF src = None THEN Raise(m) ELSE WriteReg(m, ops["a"], Mask16(BitNot(src)))

\* Sim._getp
GetP(m, mnem, ops) == WriteReg(m, ops["a"], BoolInt(m.pred))

\* Sim._putp
PutP(m, mnem, ops) ==
    LET value == Operand(m, ops)
    IN  IF value = None THEN Raise(m) ELSE WritePred(m, value % 2 = 1)

\* Sim._out
Out(m, mnem, ops) ==
    IF mnem = "outp" THEN WriteOutPin(m, ops["n"], BoolInt(m.pred))
    ELSE LET value == Operand(m, ops)
         IN  IF value = None THEN Raise(m)
             ELSE WriteOutPin(m, ops["n"],
                              IF mnem = "outn" THEN 1 - (value % 2) ELSE value % 2)

\* Sim._in, level what cb.read_pin returns
In(m, mnem, ops, level) ==
    LET value == level % 2
        read  == [m EXCEPT !.calls = Append(@, Call("read_pin", ops["n"], level))]
    IN  IF level = None THEN Raise(m)
        ELSE IF mnem = "in" THEN WriteReg(read, ops["a"], value)
        ELSE LET w == WritePred(read, value = 1)
             IN  IF mnem = "inpx" THEN WriteCond(w, 3) ELSE w

----------------------------------------------------------------------------
(* sim.py: Sim.tick.                                                        *)

\* What the callbacks return during one tick: the memory words read, the word
\* on the UART and the level on the pins.
Env(sel, uart, pin) == [mem |-> sel, uart |-> uart, pin |-> pin]

\* self.funcs[instr.mnem](instr.mnem, **ops)
Exec(m, instr, env) ==
    LET k   == instr.mnem
        ops == instr.ops
    IN  CASE k \in {"add", "sub"}                  -> AddSub(m, k, ops)
          [] k \in {"and", "andn", "or", "xor"}    -> Bitwise(m, k, ops)
          [] k \in {"ld", "ld+", "+ld", "ld-", "-ld"} -> Ld(m, k, ops, env.mem)
          [] k \in {"st", "st+", "+st", "st-", "-st"} -> St(m, k, ops)
          [] k \in {"ldm", "stm"}                  -> LdStm(m, k, ops, env.mem)
          [] k \in {"inc", "dec"}                  -> IncDec(m, k, ops)
          [] k \in {"srl", "sra", "ror", "rol"}    -> Shift(m, k, ops)
          [] k = "not"                             -> Not(m, k, ops)
          [] k = "urx"                             -> Urx(m, k, ops, env.uart)
          [] k = "getp"                            -> GetP(m, k, ops)
          [] k \in {"eq", "ne", "lt", "ltu", "ge", "geu", "any",
                    "eqx", "nex", "ltx", "ltux", "gex", "geux", "anyx"}
                                                   -> Cmp(m, k, ops)
          [] k \in {"inp", "inpx", "in"}           -> In(m, k, ops, env.pin)
          [] k = "addpc"                           -> AddPc(m, k, ops)
          [] k \in {"b", "j", "bl", "jl"}          -> Jmp(m, k, ops)
          [] k \in {"out", "outn", "outp"}         -> Out(m, k, ops)
          [] k = "utx"                             -> Utx(m, k, ops)
          [] k = "carry"                           -> Carry(m, k, ops)
          [] k = "putp"                            -> PutP(m, k, ops)
          [] k \in {"andp", "orp"}                 -> AndOrP(m, k, ops)
          [] k = "cex"                             -> Cex(m, k, instr)

\* Sim._check_run as it would be if it looked at the tag alone.
CheckRunTagOnly(c, p) == IF c \in {0, 1} THEN TRUE ELSE c % 2 = 1

\* Sim._check_run: whether the instruction runs, and cond afterwards
CheckRun(c, p) == IF c \in {0, 1} THEN TRUE ELSE (c % 2 = 1) = p

\* A check that leaves cond as it is.
CondKept(c) == c

CondAfterCheck(c) == IF c \in {0, 1} THEN c ELSE Shr(c, 1)

\* Sim._fetch: the tag added for tracing
TraceTag(c) == IF c \in {0, 1} THEN "none" ELSE IF c % 2 = 1 THEN ".t" ELSE ".f"

\* tick lines 167-173: `if redirect:` takes neither None nor 0
NextPc(redirect, at, instr) ==
    IF redirect # None /\ redirect # 0 THEN redirect ELSE at + Size(instr)

\* tick lines 175-180 as they would be if the mode were cleared one tick late.
CountStepLate(m) ==
    LET n == IF m.num_count < m.max_count THEN m.num_count + 1 ELSE m.num_count
    IN  [m EXCEPT !.num_count = n,
                  !.count_op = IF n > m.max_count THEN "none" ELSE @]

\* tick lines 175-180
CountStep(m) ==
    LET n == IF m.num_count < m.max_count THEN m.num_count + 1 ELSE m.num_count
    IN  [m EXCEPT !.num_count = n,
                  !.count_op = IF n >= m.max_count THEN "none" ELSE @]

ShadowSetters == CMPX \cup {"cex"}
Configurators == {"carry", "andp", "orp"}

\* The simulator after reset (Sim.__init__), with nothing observed yet.
Reset ==
    [pc |-> 0,
     regs |-> [i \in 0..15 |-> IF i = 0 THEN 0 ELSE None],
     pred |-> FALSE, cond |-> 0,
     num_count |-> 0, max_count |-> 0, count_op |-> "none", cin |-> 0,
     ticks |-> 0,
     out_pins |-> [i \in 0..3 |-> None],
     last |-> [instr |-> Instruction("none", [x \in {} |-> 0], "none", None), at |-> 0,
               ran |-> FALSE, checked |-> 0, calls |-> <<>>,
               before |-> [mnem |-> "none", ran |-> FALSE]],
     shadow |-> [by |-> "none", tags |-> <<>>, since |-> 0, at |-> 0, moved |-> FALSE],
     counted |-> [by |-> "none", j |-> 0, since |-> 0],
     ok |-> TRUE]

\* One call of tick() from state st, when the callback's fetch returns instr
\* (decoded from an item whose followers carry the tags `tags` in the source)
\* and its other operations answer as env says.
Fetched(st, instr) ==
    [pc |-> st.pc + (IF HasImm(instr) THEN 1 ELSE 0),
     regs |-> st.regs, pred |-> st.pred,
     cond |-> CondAfterCheck(st.cond),
     num_count |-> st.num_count, max_count |-> st.max_count,
     count_op |-> st.count_op, cin |-> st.cin,
     out_pins |-> st.out_pins,
     calls |-> <<Call("fetch", st.pc, 0)>>,
     redirect |-> None, ok |-> TRUE]

Ticked(st, instr, tags, run, m1, m2) ==
    [pc |-> NextPc(m1.redirect, st.pc, instr),
     regs |-> m2.regs, pred |-> m2.pred, cond |-> m2.cond,
     num_count |-> m2.num_count, max_count |-> m2.max_count,
     count_op |-> m2.count_op, cin |-> m2.cin,
     ticks |-> st.ticks + 1,
     out_pins |-> m2.out_pins,
     last |-> [instr |-> [instr EXCEPT !.cond = TraceTag(st.cond)], at |-> st.pc,
               ran |-> run, checked |-> CondAfterCheck(st.cond), calls |-> m2.calls,
               before |-> [mnem |-> st.last.instr.mnem, ran |-> st.last.ran]],
     shadow |-> IF run /\ instr.mnem \in ShadowSetters
                THEN [by |-> instr.mnem,
                      tags |-> IF instr.mnem = "cex" THEN tags ELSE <<".t">>,
                      since |-> 0, at |-> st.pc, moved |-> FALSE]
                ELSE [st.shadow EXCEPT
                        !.since = @ + 1,
                        !.moved = @ \/ NextPc(m1.redirect, st.pc, instr) # st.pc + Size(instr)],
     counted |-> IF run /\ instr.mnem \in Configurators
                 THEN [by |-> instr.mnem, j |-> instr.ops["j"], since |-> 0]
                 ELSE [st.counted EXCEPT !.since = @ + 1],
     ok |-> st.ok /\ m1.ok]

Step(st, instr, tags, env) ==
    Let(CheckRun(st.cond, st.pred), LAMBDA run :
        Let(Fetched(st, instr), LAMBDA m0 :
            Let(IF run THEN Exec(m0, instr, env) ELSE m0, LAMBDA m1 :
                Let(CountStep(m1), LAMBDA m2 :
                    Ticked(st, instr, tags, run, m1, m2)))))

\* The state of the simulator as one record, and the variables set from one.
Now ==
    [pc |-> pc, regs |-> regs, pred |-> pred, cond |-> cond,
     num_count |-> num_count, max_count |-> max_count, count_op |-> count_op,
     cin |-> cin, ticks |-> ticks, out_pins |-> out_pins, last |-> last,
     shadow |-> shadow, counted |-> counted, ok |-> TRUE]

SetSim(st) ==
    /\ pc' = st.pc /\ regs' = st.regs /\ pred' = st.pred /\ cond' = st.cond
    /\ num_count' = st.num_count /\ max_count' = st.max_count
    /\ count_op' = st.count_op /\ cin' = st.cin /\ ticks' = st.ticks
    /\ out_pins' = st.out_pins /\ last' = st.last
    /\ shadow' = st.shadow /\ counted' = st.counted

Become(st) ==
    /\ st.ok
    /\ SetSim(st)
    /\ UNCHANGED <<asmVars, runVars, genVars, benchVars>>

----------------------------------------------------------------------------
(* What the callback's fetch returns.  The program text is given as source  *)
(* instructions; each is encoded (Instruction.encode, with its followers'   *)
(* tags for cex) and the words are decoded again, as Cb.fetch does with     *)
(* decode(data, max_items=1).                                               *)

Item(instr, tags) == [instr |-> instr, tags |-> tags]

\* The followers of an item as encode() sees them: instructions carrying the tags.
Followers(tags) ==
    [i \in 1..Len(tags) |->
        Instruction("add", [a |-> 0, b |-> 0, c |-> 0], tags[i], None)]

\* Cb.fetch: the instruction decoded from the words of the item.
Fetch(item) ==
    Let(Encode(item.instr, Followers(item.tags)),
        LAMBDA words : Let(words[1], LAMBDA enc :
            DecodeItem(enc, IF Len(words) > 1 THEN words[2] ELSE 0, <<>>)))

Fetchable(item) ==
    /\ EncodeOk(item.instr, Followers(item.tags))
    /\ Let(Encode(item.instr, Followers(item.tags))[1], LAMBDA enc : DecodeOk(enc))

\* Source instructions by operand shape.
Src(mnem, ops) == Item(Instruction(mnem, ops, "none", None), <<>>)

ABC(mnem, a, b, c)      == Src(mnem, [a |-> a, b |-> b, c |-> c])
ABI(mnem, a, b, imm)    == Src(mnem, [a |-> a, b |-> b, c |-> REG_SP, imm |-> imm])
AB(mnem, a, b)          == Src(mnem, [a |-> a, b |-> b])
BC(mnem, b, c)          == Src(mnem, [b |-> b, c |-> c])
BI(mnem, b, imm)        == Src(mnem, [b |-> b, c |-> REG_SP, imm |-> imm])
AC(mnem, a, c)          == Src(mnem, [a |-> a, c |-> c])
AI(mnem, a, imm)        == Src(mnem, [a |-> a, c |-> REG_SP, imm |-> imm])
RSB(mnem, r, s, b)      == Src(mnem, [r |-> r, s |-> s, b |-> b])
OnlyA(mnem, a)          == Src(mnem, [a |-> a])
OnlyC(mnem, c)          == Src(mnem, [c |-> c])
OnlyI(mnem, imm)        == Src(mnem, [c |-> REG_SP, imm |-> imm])
OnlyN(mnem, n)          == Src(mnem, [n |-> n])
NA(mnem, n, a)          == Src(mnem, [n |-> n, a |-> a])
NC(mnem, n, c)          == Src(mnem, [n |-> n, c |-> c])
NI(mnem, n, imm)        == Src(mnem, [n |-> n, c |-> REG_SP, imm |-> imm])
OnlyJ(mnem, j)          == Src(mnem, [j |-> j])
CexItem(tags)           == Item(Instruction("cex", [m |-> Len(tags)], "none", None), tags)

Nop == ABC("add", 0, 0, 0)

\* All sequences of the tags .t and .f of length n.
RECURSIVE TagSeqs(_)
TagSeqs(n) ==
    IF n = 0 THEN {<<>>}
    ELSE {<<t>> \o q : t \in {".t", ".f"}, q \in TagSeqs(n - 1)}

\* The largest number of followers of a cex in the programs explored.
MaxFollowers == 3

CexItems == UNION {{CexItem(q) : q \in TagSeqs(k)} : k \in 1..MaxFollowers}

\* The largest count of a carry, andp or orp in the programs explored.
MaxJ == 3

\* The callback answers explored: memory words, UART words, pin levels.
MemSels   == {[byAddr |-> TRUE, word |-> 0], [byAddr |-> FALSE, word |-> 65535]}
UartWords == {65, -1}
PinLevels == {0, 1}

NoEnv == Env([byAddr |-> TRUE, word |-> 0], 0, 0)

\* The callback answers that matter to an instruction.
Envs(instr) ==
    IF instr.mnem \in {"ld", "ld+", "+ld", "ld-", "-ld", "ldm"}
    THEN {Env(sel, 0, 0) : sel \in MemSels}
    ELSE IF instr.mnem = "urx" THEN {Env(NoEnv.mem, w, 0) : w \in UartWords}
    ELSE IF instr.mnem \in {"in", "inp", "inpx"} THEN {Env(NoEnv.mem, 0, l) : l \in PinLevels}
    ELSE {NoEnv}

\* What the callback fetches for each item of U that encodes and decodes: the
\* decoded instruction, with the source tags of its followers.
Program(U) ==
    {[instr |-> Fetch(item), tags |-> item.tags] : item \in {x \in U : Fetchable(x)}}

\* tick() on an instruction fetched from the decoded program text F.
TickFrom(F) ==
    \E item \in F :
        \E env \in Envs(item.instr) :
            \E st \in {Step(Now, item.instr, item.tags, env)} : Become(st)

Of(U, mnems) == {item \in U : item.instr.mnem \in mnems}

----------------------------------------------------------------------------
(* Spec: from reset, PrepTicks preparatory instructions (which load r1, set *)
(* p, cond, the count-op mode or pc), then one instruction of any kind.     *)

PrepTicks == 2

Prep ==
    {ABI("add", 1, 0, 1), ABI("add", 1, 0, -1), ABI("or", 1, 0, -1),
     CexItem(<<".t">>), CexItem(<<".f", ".t">>),
     BC("eqx", 0, 0), BC("nex", 0, 0), OnlyI("putp", 1),
     OnlyJ("carry", 2), OnlyJ("andp", 2), OnlyJ("orp", 1),
     OnlyI("j", -1), Nop}

AddSubMnems  == {"add", "sub"}
BitwiseMnems == {"and", "andn", "or", "xor"}
LdMnems      == {"ld", "ld+", "+ld", "ld-", "-ld"}
StMnems      == {"st", "st+", "+st", "st-", "-st"}
ShiftMnems   == {"srl", "sra", "ror", "rol"}
CmpMnems     == {"eq", "ne", "lt", "ltu", "ge", "geu", "any",
                 "eqx", "nex", "ltx", "ltux", "gex", "geux", "anyx"}
JmpMnems     == {"b", "j", "bl", "jl"}

Wide ==
    {ABC(k, a, b, c) : k \in AddSubMnems, a \in {0, 1}, b \in {0, 1}, c \in {0, 1}}
    \cup {ABI(k, a, b, i) : k \in AddSubMnems, a \in {0, 1}, b \in {0, 1}, i \in {1, -1}}
    \cup {ABI(k, 1, b, i) : k \in BitwiseMnems, b \in {0, 1}, i \in {-1, 255}}
    \cup {ABC(k, a, 1, 1) : k \in BitwiseMnems, a \in {0, 2}}
    \cup {ABI("ld", a, b, i) : a \in {0, 1}, b \in {0, 1}, i \in {2, -1}}
    \cup {ABC("ld", 1, 0, 1), ABC("st", 0, 0, 1)}
    \cup {AB(k, a, b) : k \in LdMnems \ {"ld"}, a \in {0, 1}, b \in {0, 1}}
    \cup {ABI("st", a, b, 2) : a \in {0, 1}, b \in {0, 1}}
    \cup {AB(k, a, b) : k \in StMnems \ {"st"}, a \in {0, 1}, b \in {0, 1}}
    \cup {RSB(k, rs[1], rs[2], b) : k \in {"ldm", "stm"},
                                   rs \in {<<15, 1>>, <<1, 2>>, <<0, 0>>, <<0, 1>>},
                                   b \in {0, 1}}
    \cup {AB(k, a, b) : k \in {"inc", "dec", "not"}, a \in {0, 1}, b \in {0, 1}}
    \cup {AB(k, a, b) : k \in ShiftMnems, a \in {0, 1}, b \in {0, 1}}
    \cup {OnlyA(k, a) : k \in {"urx", "getp"}, a \in {0, 1}}
    \cup {BC(k, b, 0) : k \in CmpMnems, b \in {0, 1}}
    \cup {BI(k, b, -32768) : k \in CmpMnems, b \in {0, 1}}
    \cup {OnlyN(k, n) : k \in {"inp", "inpx", "outp"}, n \in {0, 3}}
    \cup {NA("in", n, a) : n \in {0, 3}, a \in {0, 1}}
    \cup {AC("addpc", a, 0) : a \in {0, 1}} \cup {AI("addpc", a, -1) : a \in {0, 1}}
    \cup {OnlyC(k, c) : k \in JmpMnems, c \in {0, 1}}
    \cup {OnlyI(k, i) : k \in JmpMnems, i \in {-1, -2, 5}}
    \cup {NC(k, n, 1) : k \in {"out", "outn"}, n \in {0, 3}}
    \cup {NI(k, n, 1) : k \in {"out", "outn"}, n \in {0, 3}}
    \cup {OnlyC("utx", 0), OnlyC("utx", 1), OnlyI("utx", 65)}
    \cup {OnlyJ(k, j) : k \in Configurators, j \in 0..MaxJ}
    \cup {OnlyC("putp", 0), OnlyC("putp", 1), OnlyI("putp", 1), OnlyI("putp", 2)}
    \cup CexItems

PrepProgram == Program(Prep)
WideProgram == Program(Wide)

\* Sim.__init__
\* No run of sim.py __main__ has been set up.
NoScript == [timeout |-> 0, has_output |-> FALSE, output |-> <<>>]

\* tgen.py State(), and a generator job that has not read its arguments.
NoState ==
    [cond |-> <<>>, count |-> 0, used_addrs |-> {}, ld_mem |-> <<>>,
     output |-> <<>>, finished |-> FALSE, instrs |-> <<>>, sent |-> <<>>]

\* No bench, no SQI memory and no UART pair have been built.
NoBench  == [at |-> "idle"]
NoMemory == [at |-> "idle"]
NoUart   == [at |-> "idle"]

NoGen == [at |-> "idle", num_instr |-> 0, mnems |-> {}, todo |-> 0, sim |-> "none"]

Idle ==
    /\ cb_mem = <<>> /\ uart_tx = <<>> /\ left = 0 /\ exit_code = None
    /\ script = NoScript /\ running = "idle"
    /\ state = NoState /\ gen = NoGen
    /\ tb = NoBench /\ sqi = NoMemory /\ wire = NoUart

SimInit ==
    /\ pc = Reset.pc /\ regs = Reset.regs /\ pred = Reset.pred /\ cond = Reset.cond
    /\ num_count = Reset.num_count /\ max_count = Reset.max_count
    /\ count_op = Reset.count_op /\ cin = Reset.cin /\ ticks = Reset.ticks
    /\ out_pins = Reset.out_pins /\ last = Reset.last
    /\ shadow = Reset.shadow /\ counted = Reset.counted

\* Sim.__init__, and an assemble job that has read nothing yet
Init ==
    /\ SimInit /\ Idle
    /\ items = <<>> /\ labels = <<>> /\ need_conds = 0
    /\ image = <<>> /\ listing = <<>> /\ stage = "parse"

Prepare == ticks < PrepTicks /\ TickFrom(PrepProgram)

Tick_add_sub == ticks = PrepTicks /\ TickFrom(Of(WideProgram, AddSubMnems))
Tick_bitwise == ticks = PrepTicks /\ TickFrom(Of(WideProgram, BitwiseMnems))
Tick_ld      == ticks = PrepTicks /\ TickFrom(Of(WideProgram, LdMnems))
Tick_st      == ticks = PrepTicks /\ TickFrom(Of(WideProgram, StMnems))
Tick_ldstm   == ticks = PrepTicks /\ TickFrom(Of(WideProgram, {"ldm", "stm"}))
Tick_inc_dec == ticks = PrepTicks /\ TickFrom(Of(WideProgram, {"inc", "dec"}))
Tick_shift   == ticks = PrepTicks /\ TickFrom(Of(WideProgram, ShiftMnems))
Tick_not     == ticks = PrepTicks /\ TickFrom(Of(WideProgram, {"not"}))
Tick_urx     == ticks = PrepTicks /\ TickFrom(Of(WideProgram, {"urx"}))
Tick_getp    == ticks = PrepTicks /\ TickFrom(Of(WideProgram, {"getp"}))
Tick_cmp     == ticks = PrepTicks /\ TickFrom(Of(WideProgram, CmpMnems))
Tick_in      == ticks = PrepTicks /\ TickFrom(Of(WideProgram, {"in", "inp", "inpx"}))
Tick_addpc   == ticks = PrepTicks /\ TickFrom(Of(WideProgram, {"addpc"}))
Tick_jmp     == ticks = PrepTicks /\ TickFrom(Of(WideProgram, JmpMnems))
Tick_out     == ticks = PrepTicks /\ TickFrom(Of(WideProgram, {"out", "outn", "outp"}))
Tick_utx     == ticks = PrepTicks /\ TickFrom(Of(WideProgram, {"utx"}))
Tick_carry   == ticks = PrepTicks /\ TickFrom(Of(WideProgram, {"carry"}))
Tick_putp    == ticks = PrepTicks /\ TickFrom(Of(WideProgram, {"putp"}))
Tick_andor_p == ticks = PrepTicks /\ TickFrom(Of(WideProgram, {"andp", "orp"}))
Tick_cex     == ticks = PrepTicks /\ TickFrom(Of(WideProgram, {"cex"}))

Next ==
    \/ Prepare
    \/ Tick_add_sub \/ Tick_bitwise \/ Tick_ld \/ Tick_st \/ Tick_ldstm
    \/ Tick_inc_dec \/ Tick_shift \/ Tick_not \/ Tick_urx \/ Tick_getp
    \/ Tick_cmp \/ Tick_in \/ Tick_addpc \/ Tick_jmp \/ Tick_out \/ Tick_utx
    \/ Tick_carry \/ Tick_putp \/ Tick_andor_p \/ Tick_cex

Spec == Init /\ [][Next]_vars

----------------------------------------------------------------------------
(* SpecShadow: programs around a shadow setter.  r3 is loaded and p is set, *)
(* a count-op mode may be configured, a cex or an x compare is ticked, and  *)
(* FollowTicks further instructions follow, among them writes of p and      *)
(* further shadow setters.                                                  *)

FollowTicks == MaxFollowers + 1

ShadowLoads   == Program({ABI("add", 3, 0, 1)})
ShadowPreds   == Program({OnlyI("putp", 0), OnlyI("putp", 1)})
ShadowModes   == Program({Nop, OnlyJ("orp", 2), OnlyJ("andp", 2)})
ShadowSets    == Program(CexItems \cup {BC("eqx", 0, 0), BC("nex", 0, 0), BC("eqx", 3, 0),
                                       OnlyN("inpx", 0)})
ShadowFollows == Program({ABI("add", 1, 0, 1), ABI("add", 2, 0, 2),
                          OnlyI("putp", 0), OnlyI("putp", 1), BC("nex", 0, 0)})

ShadowLoad   == ticks = 0 /\ TickFrom(ShadowLoads)
ShadowPred   == ticks = 1 /\ TickFrom(ShadowPreds)
ShadowMode   == ticks = 2 /\ TickFrom(ShadowModes)
ShadowSet    == ticks = 3 /\ TickFrom(ShadowSets)
ShadowFollow == ticks \in 4..(3 + FollowTicks) /\ TickFrom(ShadowFollows)

NextShadow == ShadowLoad \/ ShadowPred \/ ShadowMode \/ ShadowSet \/ ShadowFollow

SpecShadow == Init /\ [][NextShadow]_vars

----------------------------------------------------------------------------
(* SpecCount: programs around a configurator.  p is set, a cex may open a   *)
(* shadow (so that the configurator or the instructions after it can be     *)
(* skipped), a carry, andp or orp with a count up to MaxJ is ticked, and    *)
(* MaxJ + 2 further instructions follow, another configurator among them.   *)

CountPreds   == Program({OnlyI("putp", 0), OnlyI("putp", 1)})
CountShadows == Program({Nop, CexItem(<<".t", ".f">>), CexItem(<<".f", ".t">>)})
CountSets    == Program({OnlyJ(k, j) : k \in Configurators, j \in 0..MaxJ})
CountFollows == Program({Nop, OnlyJ("orp", 1), ABI("add", 1, 0, -1)})

CountPred   == ticks = 0 /\ TickFrom(CountPreds)
CountShadow == ticks = 1 /\ TickFrom(CountShadows)
CountSet    == ticks = 2 /\ TickFrom(CountSets)
CountFollow == ticks \in 3..(MaxJ + 4) /\ TickFrom(CountFollows)

NextCount == CountPred \/ CountShadow \/ CountSet \/ CountFollow

SpecCount == Init /\ [][NextCount]_vars

----------------------------------------------------------------------------
(* SpecPred: writes of p under each count-op mode.  r1 is loaded, p is set, *)
(* a mode may be configured, and one putp or comparison is ticked.          *)

PredValues == {0, 1, 2, 3, -1}

PredLoads   == Program({ABI("add", 1, 0, v) : v \in PredValues})
PredPreds   == Program({OnlyI("putp", 0), OnlyI("putp", 1)})
PredModes   == Program({Nop} \cup {OnlyJ(k, 1) : k \in Configurators})
PredPuts    == Program({OnlyC("putp", 0), OnlyC("putp", 1)}
                       \cup {OnlyI("putp", v) : v \in PredValues})
PredCmps    == Program({BC(k, 1, 0) : k \in CmpMnems}
                       \cup {BI(k, 1, v) : k \in CmpMnems, v \in {1, -1}})

PredLoad == ticks = 0 /\ TickFrom(PredLoads)
PredPred == ticks = 1 /\ TickFrom(PredPreds)
PredMode == ticks = 2 /\ TickFrom(PredModes)
PredPut  == ticks = 3 /\ TickFrom(PredPuts)
PredCmp  == ticks = 3 /\ TickFrom(PredCmps)

NextPred == PredLoad \/ PredPred \/ PredMode \/ PredPut \/ PredCmp

SpecPred == Init /\ [][NextPred]_vars

----------------------------------------------------------------------------
(* asm.py: the assembler.  The handlers receive each source line as the     *)
(* tree the parser made of it: a label declaration, a .space directive, or  *)
(* an instruction with its operand pattern, its operand tokens and its      *)
(* condition suffix.  Names and characters are sequences of one-character   *)
(* strings.                                                                 *)

\* isa.REGS
REGS ==
    [r0 |-> 0, r1 |-> 1, r2 |-> 2, r3 |-> 3, r4 |-> 4, r5 |-> 5, r6 |-> 6,
     r7 |-> 7, r8 |-> 8, r9 |-> 9, r10 |-> 10, r11 |-> 11, r12 |-> 12,
     r13 |-> 13, r14 |-> 14, r15 |-> 15, zr |-> 0, lr |-> 14, sp |-> 15]

\* The Python string 'b' that SYNONYMS gives sll as its c operand: a value
\* no operand field can hold.
StrB == -1000000

\* isa.SYNONYMS: the real mnemonic and the operands substituted.
SYNONYMS ==
    [mov  |-> [mnem |-> "add", ops |-> [b |-> REGS["zr"]]],
     ret  |-> [mnem |-> "j",   ops |-> [c |-> REGS["lr"]]],
     nop  |-> [mnem |-> "add", ops |-> [a |-> REGS["zr"], b |-> REGS["zr"], c |-> REGS["zr"]]],
     push |-> [mnem |-> "-st", ops |-> [b |-> REGS["sp"]]],
     pop  |-> [mnem |-> "ld+", ops |-> [b |-> REGS["sp"]]],
     sll  |-> [mnem |-> "add", ops |-> [c |-> StrB]]]

\* isa.RawData: one word of data; no mnemonic, no operands, size 1.
RawData(data) ==
    [mnem |-> "none", ops |-> <<>>, cond |-> "none", cex_mask |-> None, data |-> data]

IsRaw(item) == item.mnem = "none"

\* item.encode(followers) for either class of item, and where it raises.
EncodeItemOk(item, followers) ==
    IF IsRaw(item) THEN PackSignedOk(item.data) ELSE EncodeOk(item, followers)

EncodeItem(item, followers) ==
    IF IsRaw(item) THEN <<PackSigned(item.data)>> ELSE Encode(item, followers)

\* A label reference as written: the sigil and the characters after it.
Ref(sigil, name) == [sigil |-> sigil, name |-> name]
NoRef == Ref("", <<>>)

\* An entry of items: the item, and the reference its imm was written as.
Entry(item, ref) == [item |-> item, ref |-> ref]

\* str.isdigit
Digits == {"0", "1", "2", "3", "4", "5", "6", "7", "8", "9"}
IsDigit(name) == name # <<>> /\ \A i \in 1..Len(name) : name[i] \in Digits

\* The sum of the sizes of the items: the address of the next item.
RECURSIVE Address(_)
Address(its) ==
    IF its = <<>> THEN 0
    ELSE Address(SubSeq(its, 1, Len(its) - 1)) + Size(its[Len(its)].item)

\* ord() of the characters used
Ord == ("A" :> 65) @@ ("z" :> 122) @@ ("0" :> 48) @@ ("\"" :> 34) @@ ("'" :> 39)
       @@ ("\\" :> 92) @@ ("q" :> 113)

\* parse_char: the value of a character literal, or None where it aborts.
ParseChar(c) ==
    IF c[1] = "\\"
    THEN IF c[2] = "0" THEN 0
         ELSE IF c[2] = "t" THEN 9
         ELSE IF c[2] = "n" THEN 10
         ELSE IF c[2] \in {"\"", "'"} THEN Ord[c[2]]
         ELSE None
    ELSE Ord[c[1]]

\* The outcome of parsing operands: an error, or the operands and a reference.
Parsed(err, ops, ref) == [err |-> err, ops |-> ops, ref |-> ref]

\* parse_instr, one operand: the operand letter of the pattern and its token.
ParseOperand(op, token) ==
    IF op \in {"a", "b", "r", "s"}
    THEN Parsed("", op :> REGS[token.name], NoRef)
    ELSE IF op = "c"
    THEN IF token.type = "REGISTER"
         THEN IF REGS[token.name] = REGS["sp"]
              THEN Parsed("Cannot use SP in C operand.", <<>>, NoRef)
              ELSE Parsed("", op :> REGS[token.name], NoRef)
         ELSE IF token.type = "IMMEDIATE"
         THEN IF token.num < -32768 \/ token.num > 65535
              THEN Parsed("Out of range immediate", <<>>, NoRef)
              ELSE Parsed("", (op :> REGS["sp"]) @@ ("imm" :> token.num), NoRef)
         ELSE IF token.type = "LABEL_REF"
         THEN Parsed("", (op :> REGS["sp"]) @@ ("imm" :> None), token.ref)
         ELSE IF token.type = "CHAR_LETTER"
         THEN IF ParseChar(token.text) = None
              THEN Parsed("Invalid escape code for character", <<>>, NoRef)
              ELSE Parsed("", (op :> REGS["sp"]) @@ ("imm" :> ParseChar(token.text)), NoRef)
         ELSE Parsed("Unexpected token for C", <<>>, NoRef)
    ELSE IF op = "m"
    THEN IF token.num < 1 \/ token.num > 7
         THEN Parsed("Bad value for CEX count", <<>>, NoRef)
         ELSE Parsed("", op :> token.num, NoRef)
    ELSE Parsed("Unexpected operand type", <<>>, NoRef)

\* parse_instr, the loop over zip(op_pattern, tokens) from position i on.
RECURSIVE ParseOperands(_, _, _, _)
ParseOperands(pattern, tokens, i, sofar) ==
    IF i > Len(pattern) \/ i > Len(tokens) THEN sofar
    ELSE Let(ParseOperand(pattern[i], tokens[i]), LAMBDA one :
             IF one.err # "" THEN one
             ELSE ParseOperands(pattern, tokens, i + 1,
                                Parsed("", one.ops @@ sofar.ops,
                                       IF one.ref = NoRef THEN sofar.ref ELSE one.ref)))

\* parse_instr: the error it aborts with ("" if none), the instruction made and
\* the count of followers it asks for.  The checks are made in source order.
ParseInstrResult(line, its, need) ==
    LET prev     == its[Len(its)].item
        suffix   == IF line.cond # "none"
                    THEN IF need = 0 THEN "Found unexpected condition."
                         ELSE IF its # <<>> /\ prev.mnem # "cex"
                                 /\ NumCond(prev) # 0 /\ line.cond # ".t"
                         THEN "Follower of compare and cond must be .t!"
                         ELSE ""
                    ELSE IF need # 0 THEN "Expected condition suffix but none found."
                    ELSE ""
        parsed   == ParseOperands(line.pattern, line.tokens, 1, Parsed("", <<>>, NoRef))
        synonym  == line.mnem \in DOMAIN SYNONYMS
        mnem     == IF synonym THEN SYNONYMS[line.mnem].mnem ELSE line.mnem
        ops      == IF synonym THEN SYNONYMS[line.mnem].ops @@ parsed.ops ELSE parsed.ops
        instr    == Instruction(mnem, ops, line.cond, None)
        nested   == NumCond(instr) # 0 /\ need # 0
    IN  IF suffix # "" THEN [err |-> suffix]
        ELSE IF parsed.err # "" THEN [err |-> parsed.err]
        ELSE IF nested THEN [err |-> "Cannot nest conditional state."]
        ELSE [err |-> "", entry |-> Entry(instr, parsed.ref), new_conds |-> NumCond(instr)]

Abort(reason) == "abort: " \o reason

Unread == UNCHANGED <<image, listing, simVars>>

\* parse_line on an instruction: parse_instr, then the update of need_conds.
ParseInstr(line) ==
    /\ stage = "parse"
    /\ \E res \in {ParseInstrResult(line, items, need_conds)} :
        IF res.err # ""
        THEN stage' = Abort(res.err) /\ UNCHANGED <<items, need_conds>>
        ELSE /\ items' = Append(items, res.entry)
             /\ need_conds' = (IF res.new_conds # 0 THEN res.new_conds
                               ELSE IF need_conds # 0 THEN need_conds - 1 ELSE 0)
             /\ stage' = stage
    /\ UNCHANGED labels /\ Unread

\* A parse_label that takes every declaration as one more definition.
ParseLabelRepeated(name) ==
    /\ stage = "parse"
    /\ IF name \notin DOMAIN labels
       THEN labels' = labels @@ (name :> <<Address(items)>>)
       ELSE labels' = [labels EXCEPT ![name] = Append(@, Address(items))]
    /\ UNCHANGED <<items, need_conds, stage>> /\ Unread

\* parse_label
ParseLabel(name) ==
    /\ stage = "parse"
    /\ IF name \notin DOMAIN labels
       THEN labels' = labels @@ (name :> <<Address(items)>>) /\ stage' = stage
       ELSE IF ~IsDigit(name)
       THEN stage' = Abort("Multiple instances of global label") /\ labels' = labels
       ELSE labels' = [labels EXCEPT ![name] = Append(@, Address(items))] /\ stage' = stage
    /\ UNCHANGED <<items, need_conds>> /\ Unread

\* parse_directive, .space n: n words of zero data.
ParseSpace(n) ==
    /\ stage = "parse"
    /\ items' = items \o [i \in 1..n |-> Entry(RawData(0), NoRef)]
    /\ UNCHANGED <<labels, need_conds, stage>> /\ Unread

\* parse() on an included file of instruction lines, from line i on: the file
\* starts with need_conds = 0 and adds to the items of the including file.
RECURSIVE ParseFileFrom(_, _, _, _)
ParseFileFrom(lines, i, its, need) ==
    IF i > Len(lines) THEN [err |-> "", items |-> its]
    ELSE Let(ParseInstrResult(lines[i], its, need), LAMBDA res :
             IF res.err # "" THEN [err |-> res.err, items |-> its]
             ELSE ParseFileFrom(lines, i + 1, Append(its, res.entry),
                                IF res.new_conds # 0 THEN res.new_conds
                                ELSE IF need # 0 THEN need - 1 ELSE 0))

\* parse_directive, .include: parse() on the file; what it returns is dropped
\* by parse_line, and need_conds of the including file is left as it was.
ParseInclude(file) ==
    /\ stage = "parse"
    /\ \E res \in {ParseFileFrom(file, 1, items, 0)} :
        /\ items' = res.items
        /\ stage' = (IF res.err # "" THEN Abort(res.err) ELSE stage)
    /\ UNCHANGED <<labels, need_conds>> /\ Unread

\* resolve_labels: the name and the search direction of a reference.  Only a
\* name whose characters before the last are all digits has its f or b taken
\* as a direction.
IsLocalRef(ref) ==
    /\ Len(ref.name) > 0
    /\ IsDigit(SubSeq(ref.name, 1, Len(ref.name) - 1))
    /\ ref.name[Len(ref.name)] \in {"f", "b"}

RefSearch(ref) == IF IsLocalRef(ref) THEN ref.name[Len(ref.name)] ELSE "none"
RefName(ref) == IF IsLocalRef(ref) THEN SubSeq(ref.name, 1, Len(ref.name) - 1) ELSE ref.name

\* for addr in label: if addr > pc: break  (the last address if none is greater)
RECURSIVE SearchForward(_, _, _)
SearchForward(label, i, at) ==
    IF label[i] > at \/ i = Len(label) THEN label[i]
    ELSE SearchForward(label, i + 1, at)

\* for addr in reversed(label): if addr <= pc: break  (the first address if none)
RECURSIVE SearchBackward(_, _, _)
SearchBackward(label, i, at) ==
    IF label[i] <= at \/ i = 1 THEN label[i]
    ELSE SearchBackward(label, i - 1, at)

\* The address picked for a relative reference made at address at.
RelativeTarget(label, search, at) ==
    IF search = "f" THEN SearchForward(label, 1, at)
    ELSE SearchBackward(label, Len(label), at)

\* A resolution that takes displacements from the address of the instruction.
ResolveRefFromHere(ref, lbls, at) ==
    LET name   == RefName(ref)
        search == RefSearch(ref)
    IN  IF name \notin DOMAIN lbls
        THEN [err |-> "Reference to undefined label"]
        ELSE IF ref.sigil = "$"
        THEN IF Len(lbls[name]) > 1
             THEN [err |-> "TypeError"]
             ELSE IF search # "none"
             THEN [err |-> "Cannot make local absolute reference."]
             ELSE [err |-> "", imm |-> lbls[name][1]]
        ELSE [err |-> "", imm |-> RelativeTarget(lbls[name], search, at) - at]

\* resolve_labels on one reference at address at: the error or the new imm.
\* The message for an absolute reference to a label with several definitions
\* unpacks each address as a pair, so that branch ends in a TypeError instead
\* of its abort.
ResolveRef(ref, lbls, at) ==
    LET name   == RefName(ref)
        search == RefSearch(ref)
    IN  IF name \notin DOMAIN lbls
        THEN [err |-> "Reference to undefined label"]
        ELSE IF ref.sigil = "$"
        THEN IF Len(lbls[name]) > 1
             THEN [err |-> "TypeError"]
             ELSE IF search # "none"
             THEN [err |-> "Cannot make local absolute reference."]
             ELSE [err |-> "", imm |-> lbls[name][1]]
        ELSE [err |-> "", imm |-> RelativeTarget(lbls[name], search, at) - (at + 1)]

\* resolve_labels, the loop from item i on at address at.
RECURSIVE ResolveFrom(_, _, _, _)
ResolveFrom(its, lbls, i, at) ==
    IF i > Len(its) THEN [err |-> "", items |-> its]
    ELSE IF its[i].ref = NoRef
    THEN ResolveFrom(its, lbls, i + 1, at + Size(its[i].item))
    ELSE Let(ResolveRef(its[i].ref, lbls, at), LAMBDA res :
             IF res.err # "" THEN [err |-> res.err, items |-> its]
             ELSE ResolveFrom([its EXCEPT ![i].item.ops["imm"] = res.imm], lbls,
                              i + 1, at + Size(its[i].item)))

\* resolve_labels: nothing is resolved when no label was declared.
ResolveLabels ==
    /\ stage = "parse"
    /\ \E res \in {IF labels = <<>> THEN [err |-> "", items |-> items]
                   ELSE ResolveFrom(items, labels, 1, 0)} :
        /\ items' = res.items
        /\ stage' = (IF res.err # "" THEN Abort(res.err) ELSE "resolved")
    /\ UNCHANGED <<labels, need_conds>> /\ Unread

\* The items after position i, as encode() hands them to item.encode.
FollowersOf(its, i) == [k \in 1..(Len(its) - i) |-> its[i + k].item]

\* asm.py encode(), the loop from item i on: the words written before the
\* first item whose encode raises, and whether one did.
RECURSIVE EncodeFrom(_, _, _)
EncodeFrom(its, i, words) ==
    IF i > Len(its) THEN [err |-> "", words |-> words]
    ELSE IF ~EncodeItemOk(its[i].item, FollowersOf(its, i))
    THEN [err |-> "Encoding failed", words |-> words]
    ELSE Let(EncodeItem(its[i].item, FollowersOf(its, i)), LAMBDA w :
             EncodeFrom(its, i + 1, words \o w))

\* asm.py encode()
EncodeFile ==
    /\ stage = "resolved"
    /\ \E res \in {EncodeFrom(items, 1, <<>>)} :
        /\ image' = res.words
        /\ stage' = (IF res.err # "" THEN Abort(res.err)
                     ELSE IF Len(res.words) >= 65536 THEN Abort("Binary is too large")
                     ELSE "encoded")
    /\ UNCHANGED <<items, labels, need_conds, listing, simVars>>

\* objdump.decode on the whole file, from word i on with cond_state owed; each
\* item is listed with the offset objdump() prints for it.
RECURSIVE DecodeFrom(_, _, _, _)
DecodeFrom(words, i, cond_state, out) ==
    IF i > Len(words) THEN [err |-> "", listing |-> out]
    ELSE Let(Matches(words[i]), LAMBDA matches :
        IF matches = {} THEN [err |-> "No matches for encoding", listing |-> out]
        ELSE IF Cardinality(matches) > 1
        THEN [err |-> "Multiple candidates for encoding", listing |-> out]
        ELSE Let(DecodeFields(CHOOSE k \in matches : TRUE,
                              DecodeOps(CHOOSE k \in matches : TRUE, words[i]),
                              IF i < Len(words) THEN words[i + 1] ELSE 0, cond_state),
                 LAMBDA item :
                     IF HasImm(item) /\ i = Len(words)
                     THEN [err |-> "struct.error", listing |-> out]
                     ELSE DecodeFrom(words, i + Size(item),
                                     DecodeCondState(words[i], item, cond_state),
                                     Append(out, [item |-> item, at |-> i - 1]))))

\* objdump.objdump on the file the assembler wrote
Objdump ==
    /\ stage = "encoded"
    /\ \E res \in {DecodeFrom(image, 1, <<>>, <<>>)} :
        /\ listing' = res.listing
        /\ stage' = (IF res.err # "" THEN Abort(res.err) ELSE "decoded")
    /\ UNCHANGED <<items, labels, need_conds, image, simVars>>

----------------------------------------------------------------------------
(* The source lines given to the assembler.                                 *)

\* A token: its type and its text, held as the register name, the number,
\* the characters or the reference that the text stands for.
Token(type, name, num, text, ref) ==
    [type |-> type, name |-> name, num |-> num, text |-> text, ref |-> ref]

Reg(name)           == Token("REGISTER", name, 0, <<>>, NoRef)
Imm(v)              == Token("IMMEDIATE", "", v, <<>>, NoRef)
Chr(c)              == Token("CHAR_LETTER", "", 0, c, NoRef)
LabelRef(sigil, nm) == Token("LABEL_REF", "", 0, <<>>, Ref(sigil, nm))
Count(v)            == Token("COUNT", "", v, <<>>, NoRef)

InstrLine(mnem, tag, pattern, tokens) ==
    [mnem |-> mnem, cond |-> tag, pattern |-> pattern, tokens |-> tokens]

\* The number of label declarations made so far.
RECURSIVE Declared(_, _)
Declared(lbls, names) ==
    IF names = {} THEN 0
    ELSE Let(CHOOSE n \in names : TRUE,
             LAMBDA n : Len(lbls[n]) + Declared(lbls, names \ {n}))

\* The lines read so far: items and label declarations.
LinesRead == Len(items) + Declared(labels, DOMAIN labels)

----------------------------------------------------------------------------
(* SpecAsm: an assemble job over a source of at most MaxLines lines drawn   *)
(* from labels 1 and j, one- and two-word instructions, branches through    *)
(* label references and .space; the file may end after any line, and        *)
(* objdump is run on what was written.                                      *)

MaxLines == 4

OneWord == InstrLine("add", "none", <<"a", "b", "c">>, <<Reg("r2"), Reg("r1"), Reg("r1")>>)
TwoWord == InstrLine("add", "none", <<"a", "b", "c">>, <<Reg("r1"), Reg("zr"), Imm(5)>>)
LdmSp   == InstrLine("ldm", "none", <<"r", "s", "b">>, <<Reg("r1"), Reg("r2"), Reg("sp")>>)
Branch(sigil, nm) == InstrLine("b", "none", <<"c">>, <<LabelRef(sigil, nm)>>)

AsmLabels == {<<"1">>, <<"j">>}
AsmRefs   == {Ref("@", <<"1", "f">>), Ref("@", <<"1", "b">>), Ref("@", <<"j">>),
              Ref("@", <<"j", "b">>), Ref("$", <<"j">>)}
AsmLines  == {OneWord, TwoWord, LdmSp} \cup {Branch(r.sigil, r.name) : r \in AsmRefs}
SpaceWords == 2

AsmLabel == LinesRead < MaxLines /\ \E name \in AsmLabels : ParseLabel(name)
AsmInstr == LinesRead < MaxLines /\ \E line \in AsmLines : ParseInstr(line)
AsmSpace == LinesRead + SpaceWords <= MaxLines /\ ParseSpace(SpaceWords)

NextAsm == AsmLabel \/ AsmInstr \/ AsmSpace \/ ResolveLabels \/ EncodeFile \/ Objdump

SpecAsm == Init /\ [][NextAsm]_vars

----------------------------------------------------------------------------
(* SpecLine: an assemble job over one instruction line: one with a c        *)
(* operand, written as a register, a numeric literal or a character         *)
(* literal, or one of the synonyms.                                         *)

ImmLiterals == {-32769, -32768, -1, 0, 1, 255, 32767, 32768, 65535, 65536}
ChrLiterals == {<<"A">>, <<"z">>, <<"\\", "0">>, <<"\\", "n">>, <<"\\", "t">>,
                <<"\\", "'">>, <<"\\", "q">>}
CTokens == {Reg("r1"), Reg("lr"), Reg("sp")} \cup {Imm(v) : v \in ImmLiterals}
           \cup {Chr(c) : c \in ChrLiterals}

SynRegs == {"zr", "r1", "r9", "lr", "sp"}

LineLines ==
    {InstrLine(k, "none", <<"a", "b", "c">>, <<Reg("r1"), Reg("r2"), t>>) :
        k \in {"add", "ld", "xor"}, t \in CTokens}
    \cup {InstrLine(k, "none", <<"b", "c">>, <<Reg("r1"), t>>) :
            k \in {"eq", "ltux"}, t \in CTokens}
    \cup {InstrLine(k, "none", <<"c">>, <<t>>) : k \in {"j", "bl", "utx"}, t \in CTokens}
    \cup {InstrLine("mov", "none", <<"a", "c">>, <<Reg("r3"), t>>) : t \in CTokens}
    \cup {InstrLine(k, "none", <<>>, <<>>) : k \in {"ret", "nop"}}
    \cup {InstrLine(k, "none", <<"a">>, <<Reg(r)>>) : k \in {"push", "pop"}, r \in SynRegs}
    \cup {InstrLine("sll", "none", <<"a", "b">>, <<Reg(r), Reg(t)>>) : r, t \in SynRegs}

LineInstr == items = <<>> /\ \E line \in LineLines : ParseInstr(line)

NextLine == LineInstr \/ ResolveLabels \/ EncodeFile \/ Objdump

SpecLine == Init /\ [][NextLine]_vars

----------------------------------------------------------------------------
(* SpecCodec: encode() and objdump on one instruction of any mnemonic, a    *)
(* cex being followed by as many tagged instructions as it counts.  The     *)
(* register fields take values that set and clear every bit of a field.     *)

FieldRegs == {0, 5, 10, 15}
CRegs     == {0, 5, 10, 14}
CodecImms == {-32768, -1, 0, 1, 32767, 32768, 65535}

\* The width of the m field bounds the followers of a cex.
CexFollowers == 7

\* The values an operand letter takes in the instructions encoded.
LetterValues(x) ==
    IF x \in {"a", "b", "r", "s"} THEN FieldRegs
    ELSE IF x = "c" THEN CRegs
    ELSE IF x = "n" THEN {0, 1, 2, 3}
    ELSE {0, 5, 10, 15}

FieldChoices(k) ==
    {f \in [OpsOf(k) -> 0..15] : \A x \in OpsOf(k) : f[x] \in LetterValues(x)}

\* The register forms of mnemonic k, and its forms with an immediate.
RegForms(k) == {Instruction(k, f, "none", None) : f \in FieldChoices(k)}

ImmForms(k) ==
    IF "c" \notin OpsOf(k) THEN {}
    ELSE {Instruction(k, [f EXCEPT !["c"] = REG_SP] @@ ("imm" :> v), "none", None) :
            f \in FieldChoices(k), v \in CodecImms}

\* A cex with its followers, one per tag.
CexProgram(tags) ==
    <<Entry(Instruction("cex", [m |-> Len(tags)], "none", None), NoRef)>>
    \o [i \in 1..Len(tags) |-> Entry(Followers(tags)[i], NoRef)]

CodecPrograms ==
    {<<Entry(I, NoRef)>> :
        I \in UNION {RegForms(k) \cup ImmForms(k) : k \in Mnemonics \ {"cex"}}}
    \cup UNION {{CexProgram(tags) : tags \in TagSeqs(k)} : k \in 1..CexFollowers}

\* The items are given as Instruction objects, ready for encode().
InitCodec ==
    /\ SimInit /\ Idle
    /\ items \in CodecPrograms /\ labels = <<>> /\ need_conds = 0
    /\ image = <<>> /\ listing = <<>> /\ stage = "resolved"

NextCodec == EncodeFile \/ Objdump

SpecCodec == InitCodec /\ [][NextCodec]_vars

----------------------------------------------------------------------------
(* SpecWords: objdump on a file that holds any 16-bit word, followed by a   *)
(* zero word for the decoder to take as an immediate where it asks for one. *)

Words == 0..65535

InitWords ==
    /\ SimInit /\ Idle
    /\ items = <<>> /\ labels = <<>> /\ need_conds = 0
    /\ image \in {<<w, 0>> : w \in Words} /\ listing = <<>> /\ stage = "encoded"

NextWords == Objdump

SpecWords == InitWords /\ [][NextWords]_vars

----------------------------------------------------------------------------
(* SpecLabels: an assemble job over label declarations and branches whose   *)
(* references are relative or absolute, to a label declared once, several   *)
(* times or never.                                                          *)

LabelRefs == {Ref("@", <<"j">>), Ref("@", <<"1", "b">>), Ref("$", <<"j">>),
              Ref("$", <<"1">>), Ref("$", <<"1", "f">>)}

LabelDecl   == LinesRead < MaxLines /\ \E name \in AsmLabels : ParseLabel(name)
LabelBranch == LinesRead < MaxLines
               /\ \E r \in LabelRefs : ParseInstr(Branch(r.sigil, r.name))

NextLabels == LabelDecl \/ LabelBranch \/ ResolveLabels \/ EncodeFile \/ Objdump

SpecLabels == Init /\ [][NextLabels]_vars

----------------------------------------------------------------------------
(* SpecTags: an assemble job over shadow setters (cex, eqx), instructions   *)
(* with and without a condition suffix, .space and .include.                *)

Tags == {"none", ".t", ".f"}

Eqx(tag)    == InstrLine("eqx", tag, <<"b", "c">>, <<Reg("r1"), Reg("r2")>>)
CexOf(m)    == InstrLine("cex", "none", <<"m">>, <<Count(m)>>)
Tagged(tag) == InstrLine("add", tag, <<"a", "b", "c">>, <<Reg("r2"), Reg("r1"), Reg("r1")>>)
MovImm(tag) == InstrLine("mov", tag, <<"a", "c">>, <<Reg("r3"), Imm(-1)>>)

TagLines == {Eqx("none"), Eqx(".t"), CexOf(1), CexOf(2)}
            \cup {Tagged(t) : t \in Tags} \cup {MovImm(t) : t \in Tags}

IncludedFiles == {<<Tagged("none")>>, <<Tagged(".t")>>, <<Eqx("none")>>,
                  <<CexOf(1), Tagged(".f")>>}

TagInstr   == LinesRead < MaxLines /\ \E line \in TagLines : ParseInstr(line)
TagSpace   == LinesRead < MaxLines /\ ParseSpace(1)
TagInclude == \E file \in IncludedFiles :
                    LinesRead + Len(file) <= MaxLines /\ ParseInclude(file)

NextTags == TagInstr \/ TagSpace \/ TagInclude \/ ResolveLabels \/ EncodeFile \/ Objdump

SpecTags == Init /\ [][NextTags]_vars

----------------------------------------------------------------------------
(* sim.py __main__: a binary run on the simulator under a test script.  The *)
(* callback fetches from the words of the binary; the programs run here     *)
(* make no use of data memory, of the UART receiver or of the pins.         *)

\* [ord(x) for x in '@@END@@']
END_OF_TEST == <<64, 64, 69, 78, 68, 64, 64>>

\* An end check that takes the marker alone, with no word after it.
EndSeenAtMarker(tx) ==
    /\ Len(tx) >= Len(END_OF_TEST)
    /\ SubSeq(tx, Len(tx) - Len(END_OF_TEST) + 1, Len(tx)) = END_OF_TEST

\* uart_tx[-len(end_of_test) - 1:-1] == end_of_test
EndSeen(tx) ==
    /\ Len(tx) >= Len(END_OF_TEST) + 1
    /\ SubSeq(tx, Len(tx) - Len(END_OF_TEST), Len(tx) - 1) = END_OF_TEST

\* Cb.fetch: whether it returns an instruction for the words at address at.
FetchOk(words, at) ==
    /\ at >= 0 /\ at < Len(words)
    /\ DecodeOk(words[at + 1])
    /\ Let(CHOOSE k \in Matches(words[at + 1]) : TRUE,
           LAMBDA mnem : Let(DecodeOps(mnem, words[at + 1]),
               LAMBDA raw : ("c" \in DOMAIN raw /\ raw["c"] = REG_SP)
                                => at + 1 < Len(words)))

\* Cb.fetch: decode(data, max_items=1)[0] on the word at the address and the
\* word after it.
FetchAt(words, at) ==
    DecodeItem(words[at + 1], IF at + 1 < Len(words) THEN words[at + 2] ELSE 0, <<>>)

\* The words Cb.write_uart received during a tick.
RECURSIVE Transmitted(_, _)
Transmitted(calls, i) ==
    IF i > Len(calls) THEN <<>>
    ELSE IF calls[i].cb = "write_uart" THEN <<calls[i].x>> \o Transmitted(calls, i + 1)
    ELSE Transmitted(calls, i + 1)

\* The instructions whose callbacks the run does not model.
UsesCallbackData(instr) ==
    instr.mnem \in {"ld", "ld+", "+ld", "ld-", "-ld", "ldm", "st", "st+", "+st",
                    "st-", "-st", "stm", "urx", "in", "inp", "inpx"}

\* A run loop that goes on past its budget.
RunGuardNoBudget == running = "loop" /\ exit_code = None

\* for _ in range(args.timeout), unless the loop was left by break
RunGuard == running = "loop" /\ left > 0 /\ exit_code = None

\* One iteration of the run loop: sim.tick(), then the look for the end of
\* test marker followed by the exit code.  An exception ends the run.
RunTick ==
    /\ RunGuard
    /\ IF ~FetchOk(cb_mem, pc)
       THEN /\ running' = "error: exception"
            /\ UNCHANGED <<pc, regs, pred, cond, num_count, max_count, count_op, cin,
                           ticks, out_pins, last, shadow, counted>>
            /\ UNCHANGED <<cb_mem, uart_tx, left, exit_code, script>>
       ELSE \E instr \in {FetchAt(cb_mem, pc)} :
            /\ ~UsesCallbackData(instr)
            /\ \E st \in {Step(Now, instr, <<>>, NoEnv)} :
                IF ~st.ok
                THEN /\ running' = "error: exception"
                     /\ UNCHANGED <<pc, regs, pred, cond, num_count, max_count, count_op,
                                    cin, ticks, out_pins, last, shadow, counted>>
                     /\ UNCHANGED <<cb_mem, uart_tx, left, exit_code, script>>
                ELSE /\ SetSim(st)
                     /\ \E tx \in {uart_tx \o Transmitted(st.last.calls, 1)} :
                            /\ uart_tx' = tx
                            /\ exit_code' = (IF EndSeen(tx) THEN tx[Len(tx)] ELSE None)
                     /\ left' = left - 1
                     /\ UNCHANGED <<cb_mem, script, running>>
    /\ UNCHANGED <<asmVars, genVars, benchVars>>

\* The data received before the marker, and the data the script expects.
Received == SubSeq(uart_tx, 1, Len(uart_tx) - Len(END_OF_TEST) - 1)
Reference == [i \in 1..Len(script.output) |-> Mask16(script.output[i])]

\* After the loop: the timeout, the exit code and the check of the output.
RunEnd ==
    /\ running = "loop" /\ (left = 0 \/ exit_code # None)
    /\ running' = (IF exit_code = None THEN "error: Timed out"
                   ELSE IF exit_code # 0 THEN "error: Exited with non-zero code"
                   ELSE IF script.has_output /\ script.output # <<>> /\ Received # Reference
                   THEN "error: Received data incorrect"
                   ELSE "ok")
    /\ UNCHANGED <<pc, regs, pred, cond, num_count, max_count, count_op, cin, ticks,
                   out_pins, last, shadow, counted>>
    /\ UNCHANGED <<cb_mem, uart_tx, left, exit_code, script>>
    /\ UNCHANGED <<asmVars, genVars, benchVars>>

----------------------------------------------------------------------------
(* SpecRun: runs of programs that transmit some data words, an end marker   *)
(* (whole, cut short or misspelt), an exit code and possibly more, under    *)
(* tick budgets of 0, the length of the marker and MaxTicks, and scripts    *)
(* with and without an output list.                                         *)

MaxTicks == 12

UtxImm(w) == Instruction("utx", [c |-> REG_SP, imm |-> w], "none", None)
UtxReg(r) == Instruction("utx", [c |-> r], "none", None)
NopInstr  == Instruction("add", [a |-> 0, b |-> 0, c |-> 0], "none", None)

\* The words of a sequence of instructions, each encoded with no followers.
RECURSIVE WordsOf(_)
WordsOf(instrs) ==
    IF instrs = <<>> THEN <<>> ELSE Encode(Head(instrs), <<>>) \o WordsOf(Tail(instrs))

Sends(ws) == [i \in 1..Len(ws) |-> UtxImm(ws[i])]

RunPrefixes == {<<>>, Sends(<<1>>), Sends(<<64>>), Sends(<<1, 2>>), Sends(<<-1>>),
                <<NopInstr>>}
RunMarkers  == {Sends(END_OF_TEST), Sends(SubSeq(END_OF_TEST, 1, 6)),
                Sends(<<64, 64, 69, 78, 69, 64, 64>>)}
RunCodes    == {<<UtxReg(0)>>, Sends(<<1>>)}
RunSuffixes == {<<>>, Sends(<<7>>)}

RunPrograms ==
    {WordsOf(a \o m \o c \o z) :
        a \in RunPrefixes, m \in RunMarkers, c \in RunCodes, z \in RunSuffixes}

RunOutputs == {<<>>, <<1>>, <<1, 2>>, <<64>>, <<-1>>}
RunScripts ==
    {[timeout |-> t, has_output |-> h, output |-> o] :
        t \in {0, Len(END_OF_TEST), MaxTicks}, h \in BOOLEAN, o \in RunOutputs}

\* sim.py __main__ up to the loop: the binary is loaded into Cb.mem, the
\* script and the tick budget are read, nothing was transmitted yet.
RunSetup ==
    /\ running = "idle"
    /\ cb_mem' \in RunPrograms
    /\ script' \in {x \in RunScripts : x.has_output \/ x.output = <<>>}
    /\ left' = script'.timeout
    /\ uart_tx' = <<>> /\ exit_code' = None /\ running' = "loop"
    /\ UNCHANGED <<pc, regs, pred, cond, num_count, max_count, count_op, cin, ticks,
                   out_pins, last, shadow, counted>>
    /\ UNCHANGED <<asmVars, genVars, benchVars>>

NextRun == RunSetup \/ RunTick \/ RunEnd

SpecRun == Init /\ [][NextRun]_vars

\* The loop and the code after it run on: nothing else is scheduled.
SpecRunFair == SpecRun /\ WF_vars(NextRun)

----------------------------------------------------------------------------
(* tgen.py: the test generator.  It keeps a State beside a simulator, draws *)
(* an instruction, marks its addresses used and hands it to the simulator   *)
(* with state.sim_.tick(instr).  Sim.tick of sim.py takes no instruction;   *)
(* the tick(instr) the generator is written for is not part of the source   *)
(* tree and is modelled as one tick whose fetch answers with the            *)
(* instruction given.  gen.sim says which of the two a job runs against.    *)

SET_COND  == CMPX \cup {"cex"}
REDIRECTS == {"b", "j", "bl", "jl"}
MEM_OP    == {"st", "stm", "st+", "+st", "st-", "-st",
              "ld", "ldm", "ld+", "+ld", "ld-", "-ld"}

\* The values random draws in the explored jobs: rand_imm() for immediates,
\* rand_imm(0, 15) for registers and for j, rand_imm(1, 7) for m.
ImmDraws == {1, 65535}
RegDraws == {1, 2}
MDraws   == {1, 2}
JDraws   == {0, 3}

\* random.choices('tf', k=m)
RECURSIVE TagDraws(_)
TagDraws(m) ==
    IF m = 0 THEN {<<>>}
    ELSE {<<t>> \o q : t \in {"t", "f"}, q \in TagDraws(m - 1)}

\* check_space
CheckSpace(used, addr, space) ==
    /\ addr + space <= 65535
    /\ \A i \in 0..(space - 1) : addr + i \notin used

\* alloc_instr: the assert, and the addresses marked used
AllocOk(used, at, instr) == \A i \in 0..(Size(instr) - 1) : at + i \notin used
Alloc(used, at, instr)   == used \cup {at + i : i \in 0..(Size(instr) - 1)}

\* A call of Sim.tick with an instruction: `def tick(self)` takes none, the
\* call raises TypeError before anything is done.
TickCall(st, instr) == [st EXCEPT !.ok = FALSE]

\* tick(instr): one tick on the instruction given, tagged in the source as
\* tags says.  Of the words rand_imm() may give to a first read of an address
\* the explored jobs take the address itself, which is what ld_mem then holds
\* for it and what every later read of it returns.
TickInstr(st, instr, tags) == Step(st, instr, tags, NoEnv)

SimTick(api, st, instr, tags) ==
    IF api = "tick(self)" THEN TickCall(st, instr) ELSE TickInstr(st, instr, tags)

DotTags(q) == [i \in 1..Len(q) |-> IF q[i] = "t" THEN ".t" ELSE ".f"]

\* Callback.write_mem and Callback.read_mem on the calls of one tick, in the
\* order of the calls: the assert of each, the address marked used, the word
\* kept in ld_mem.  A read of an address of ld_mem returns the word kept.
RECURSIVE CallbackMem(_, _, _)
CallbackMem(gs, calls, i) ==
    IF i > Len(calls) THEN [gs |-> gs, ok |-> TRUE]
    ELSE IF calls[i].cb = "write_mem"
    THEN IF calls[i].x \in gs.used_addrs THEN [gs |-> gs, ok |-> FALSE]
         ELSE CallbackMem([gs EXCEPT !.used_addrs = @ \cup {calls[i].x}], calls, i + 1)
    ELSE IF calls[i].cb = "read_mem" /\ calls[i].x \notin DOMAIN gs.ld_mem
    THEN IF calls[i].x \in gs.used_addrs THEN [gs |-> gs, ok |-> FALSE]
         ELSE CallbackMem([gs EXCEPT !.used_addrs = @ \cup {calls[i].x},
                                  !.ld_mem = @ @@ (calls[i].x :> calls[i].y)],
                       calls, i + 1)
    ELSE CallbackMem(gs, calls, i + 1)

\* instrs.append, alloc_instr and state.sim_.tick on one instruction, with
\* Callback.write_uart: a word is added to the output unless state.finished.
\* acc holds the simulator, the State and whether no exception was raised.
Emit(api, acc, instr, tags) ==
    IF ~acc.ok THEN acc
    ELSE IF ~AllocOk(acc.gs.used_addrs, acc.st.pc, instr)
    THEN [acc EXCEPT !.ok = FALSE, !.err = "AssertionError"]
    ELSE Let(SimTick(api, acc.st, instr, DotTags(tags)), LAMBDA st :
         Let(IF st.ok THEN Transmitted(st.last.calls, 1) ELSE <<>>, LAMBDA tx :
         Let(CallbackMem([acc.gs EXCEPT !.used_addrs = Alloc(@, acc.st.pc, instr)],
                      IF st.ok THEN st.last.calls ELSE <<>>, 1), LAMBDA mem :
            [st  |-> IF st.ok THEN st ELSE acc.st,
             gs  |-> [mem.gs EXCEPT
                        !.instrs = Append(@, instr),
                        !.output = IF acc.gs.finished THEN @ ELSE @ \o tx,
                        !.sent = @ \o tx],
             ok  |-> st.ok /\ mem.ok,
             err |-> IF ~st.ok
                     THEN (IF api = "tick(self)" THEN "TypeError" ELSE "exception")
                     ELSE IF mem.ok THEN "none" ELSE "AssertionError"])))

Acc(st, gs) == [st |-> st, gs |-> gs, ok |-> TRUE, err |-> "none"]

\* rand_init: add i, zr, imm for i = 1..15 with the immediates drawn, then
\* putp zr.
RECURSIVE InitRegs(_, _, _, _)
InitRegs(api, acc, draws, i) ==
    IF i > 15 THEN acc
    ELSE InitRegs(api,
                  Emit(api, acc,
                       Instruction("add", [a |-> i, b |-> REG_ZR, c |-> REG_SP,
                                           imm |-> draws[i]], "none", None),
                       <<>>),
                  draws, i + 1)

RandInit(api, acc, draws) ==
    Emit(api, InitRegs(api, acc, draws, 1),
         Instruction("putp", [c |-> 0], "none", None), <<>>)

\* instr.cex_mask = 1 << m, then |= int(x == 't') << i for each tag
RECURSIVE CexBits(_, _)
CexBits(tags, n) ==
    IF n = 0 THEN 0
    ELSE CexBits(tags, n - 1) + (IF tags[n] = "t" THEN Pow2(n - 1) ELSE 0)

\* A mask that leaves out the bit above the tags.
CexMaskNoTop(tags) == CexBits(tags, Len(tags))

CexMask(tags) == Pow2(Len(tags)) + CexBits(tags, Len(tags))

\* rand_instr, the draw of the mnemonic: a draw of a SET_COND mnemonic is
\* repeated while state.cond holds tags.
MnemDraws(gs, mnems) == {k \in mnems : ~(gs.cond # <<>> /\ k \in SET_COND)}

\* rand_instr, the operands of a mnemonic with no address operand: every
\* register operand, m and j are drawn; c = sp takes a drawn immediate.
OpDraws(op) ==
    IF op \in {"a", "b", "c", "r", "s"} THEN RegDraws
    ELSE IF op = "m" THEN MDraws ELSE JDraws

RandOps(mnem) ==
    UNION {IF "c" \in DOMAIN f /\ f["c"] = REG_SP
           THEN {f @@ ("imm" :> v) : v \in ImmDraws} ELSE {f} :
           f \in {g \in [OpsOf(mnem) -> RegDraws \cup MDraws \cup JDraws] :
                    \A op \in OpsOf(mnem) : g[op] \in OpDraws(op)}}

\* rand_instr after the draws: the count is decremented, j sets it anew, the
\* instruction takes the tag at the head of state.cond, which is removed, and
\* a SET_COND instruction queues its tags; cex gets its cex_mask.
TagAndQueue(gs, mnem, ops, tags) ==
    [instr |-> Instruction(mnem, ops,
                           IF gs.cond # <<>> THEN DotTags(gs.cond)[1] ELSE "none",
                           IF mnem = "cex" THEN CexMask(tags) ELSE None),
     cond  |-> IF mnem \in SET_COND THEN (IF mnem = "cex" THEN tags ELSE <<"t">>)
               ELSE IF gs.cond # <<>> THEN Tail(gs.cond) ELSE gs.cond,
     count |-> IF "j" \in DOMAIN ops THEN ops["j"]
               ELSE IF gs.count > 0 THEN gs.count - 1 ELSE gs.count,
     tags  |-> IF mnem = "cex" THEN tags ELSE <<>>]

RandInstr(gs, mnems) ==
    UNION {UNION {{TagAndQueue(gs, k, ops, q) :
                     q \in IF k = "cex" THEN TagDraws(ops["m"]) ELSE {<<>>}} :
                  ops \in RandOps(k)} :
           k \in MnemDraws(gs, mnems) \ (REDIRECTS \cup MEM_OP)}

\* end_test, the nop
PadNop(tag) == Instruction("add", [a |-> 0, b |-> 0, c |-> 0], tag, None)

\* end_test, first loop: a nop for each tag of state.cond, which is read and
\* not changed; the count goes down with each.
RECURSIVE PadTags(_, _, _)
PadTags(api, acc, i) ==
    IF i > Len(acc.gs.cond) THEN acc
    ELSE Let(Emit(api, acc, PadNop(DotTags(acc.gs.cond)[i]), <<>>), LAMBDA nxt :
             PadTags(api,
                     [nxt EXCEPT !.gs.count = IF @ > 0 THEN @ - 1 ELSE @],
                     i + 1))

\* end_test, second loop: nops while state.count > 0
RECURSIVE PadCount(_, _)
PadCount(api, acc) ==
    IF acc.gs.count <= 0 \/ ~acc.ok THEN acc
    ELSE Let(Emit(api, acc, PadNop("none"), <<>>), LAMBDA nxt :
             PadCount(api, [nxt EXCEPT !.gs.count = @ - 1]))

\* end_test, the utx of each character of '@@END@@'
RECURSIVE SendMarker(_, _, _)
SendMarker(api, acc, i) ==
    IF i > Len(END_OF_TEST) THEN acc
    ELSE SendMarker(api,
                    Emit(api, acc,
                         Instruction("utx", [c |-> REG_SP, imm |-> END_OF_TEST[i]],
                                     "none", None), <<>>),
                    i + 1)

\* end_test, the last instruction: b to itself, allocated and not ticked
BranchToSelf == Instruction("b", [c |-> REG_SP, imm |-> 65535], "none", None)

\* The simulator between two operations of a generator job.
SetGen(acc, at, todo) ==
    /\ SetSim(acc.st)
    /\ state' = acc.gs
    /\ gen' = [gen EXCEPT !.at = IF acc.ok THEN at ELSE "error: " \o acc.err,
                          !.todo = todo]
    /\ UNCHANGED <<asmVars, runVars, benchVars>>

----------------------------------------------------------------------------
(* SpecGen: generator jobs of up to MaxInstrs instructions over a few       *)
(* biases, against Sim.tick of sim.py and against tick(instr).              *)

MaxInstrs == 3

Biases  == {{"utx", "eqx", "cex", "carry"}, {"utx", "cex"}, {"cex"}}
SimApis == {"tick(self)", "tick(instr)"}

\* The immediates rand_init draws: one value for r1 and one for the others.
InitDraws == {[i \in 1..15 |-> IF i = 1 THEN v ELSE w] : v, w \in ImmDraws}

\* parse_args, State() and sim.Sim(Callback(state))
ParseArgs ==
    /\ gen.at = "idle" /\ running = "idle" /\ stage = "parse" /\ ticks = 0
    /\ \E n \in 1..MaxInstrs, b \in Biases, api \in SimApis :
        gen' = [at |-> "init", num_instr |-> n, mnems |-> b, todo |-> n, sim |-> api]
    /\ state' = NoState
    /\ UNCHANGED <<pc, regs, pred, cond, num_count, max_count, count_op, cin, ticks,
                   out_pins, last, shadow, counted>>
    /\ UNCHANGED <<asmVars, runVars, benchVars>>

\* __main__: instrs = rand_init(state)
GenInit ==
    /\ gen.at = "init"
    /\ \E draws \in InitDraws :
        SetGen(RandInit(gen.sim, Acc(Now, state), draws), "loop", gen.todo)

\* __main__, one iteration of the loop: rand_instr, alloc_instr and the tick
\* of a copy.  At the end of memory or before used addresses rand_instr
\* forces a redirect, which is not modelled.
GenInstr ==
    /\ gen.at = "loop" /\ gen.todo > 0
    /\ pc < 65535 - 3 /\ CheckSpace(state.used_addrs, pc, 16)
    /\ \E r \in RandInstr(state, gen.mnems) :
        SetGen(Emit(gen.sim,
                    Acc(Now, [state EXCEPT !.cond = r.cond, !.count = r.count]),
                    r.instr, r.tags),
               "loop", gen.todo - 1)

\* end_test up to the marker: state.finished is set and the two loops pad
EndPad ==
    /\ gen.at = "loop" /\ gen.todo = 0
    /\ SetGen(PadCount(gen.sim,
                       PadTags(gen.sim, Acc(Now, [state EXCEPT !.finished = TRUE]), 1)),
              "marker", 0)

\* end_test from the marker on: the seven utx, utx zr for the exit code, and
\* the branch
EndMarker ==
    /\ gen.at = "marker"
    /\ \E acc \in {Emit(gen.sim, SendMarker(gen.sim, Acc(Now, state), 1),
                        Instruction("utx", [c |-> 0], "none", None), <<>>)} :
        IF acc.ok /\ ~AllocOk(acc.gs.used_addrs, acc.st.pc, BranchToSelf)
        THEN SetGen([acc EXCEPT !.ok = FALSE, !.err = "AssertionError"], "emitted", 0)
        ELSE SetGen([acc EXCEPT
                        !.gs.used_addrs = Alloc(@, acc.st.pc, BranchToSelf),
                        !.gs.instrs = Append(@, BranchToSelf)],
                    "emitted", 0)

\* __main__, save(): the assembly file and the script are written
Save ==
    /\ gen.at = "emitted"
    /\ gen' = [gen EXCEPT !.at = "saved"]
    /\ UNCHANGED <<pc, regs, pred, cond, num_count, max_count, count_op, cin, ticks,
                   out_pins, last, shadow, counted, state>>
    /\ UNCHANGED <<asmVars, runVars, benchVars>>

NextGen == ParseArgs \/ GenInit \/ GenInstr \/ EndPad \/ EndMarker \/ Save

SpecGen == Init /\ [][NextGen]_vars

----------------------------------------------------------------------------
(* SpecShift: shifts and rotates of r1 after r1 was loaded with a word, a   *)
(* carry mode was entered or not, and an addition carried out or not.       *)

MaxShifts == 2

\* The words loaded into r1, as the immediates of `add r1, zr, imm`.
ShiftWords == {0, 1, 2, 3, 21845, 32767, -32768, -32767, -21846, -2, -1}

ShiftLoads  == Program({ABI("add", 1, 0, w) : w \in ShiftWords})
ShiftModes  == Program({OnlyJ("carry", 0), OnlyJ("carry", MaxShifts + 1), Nop})
ShiftCarries == Program({ABC("add", 0, 1, 1), Nop})
ShiftItems  == Program({AB(k, a, b) : k \in ShiftMnems, a \in {0, 1, 2}, b \in {0, 1}})

ShiftLoad     == ticks = 0 /\ TickFrom(ShiftLoads)
ShiftMode     == ticks = 1 /\ TickFrom(ShiftModes)
ShiftCarryOut == ticks = 2 /\ TickFrom(ShiftCarries)
ShiftTick     == ticks \in 3..(MaxShifts + 2) /\ TickFrom(ShiftItems)

NextShift == ShiftLoad \/ ShiftMode \/ ShiftCarryOut \/ ShiftTick

SpecShift == Init /\ [][NextShift]_vars

----------------------------------------------------------------------------
(* SpecExec: programs the assembler accepts, run on the simulator.  The     *)
(* source has shadow setters, instructions and branches with and without a  *)
(* suffix, .space and .include; the binary is loaded and ticked from reset. *)

ZeroAdd(tag)   == InstrLine("add", tag, <<"a", "b", "c">>, <<Reg("zr"), Reg("zr"), Reg("zr")>>)
NexZero        == InstrLine("nex", "none", <<"b", "c">>, <<Reg("zr"), Reg("zr")>>)
BranchBy(tag, d) == InstrLine("b", tag, <<"c">>, <<Imm(d)>>)

ExecLines == {CexOf(1), CexOf(2), NexZero}
             \cup {ZeroAdd(t) : t \in Tags} \cup {BranchBy(t, 2) : t \in Tags}

ExecFiles == {<<ZeroAdd("none")>>, <<NexZero>>, <<BranchBy("none", 2)>>}

ExecInstr   == LinesRead < MaxLines /\ \E line \in ExecLines : ParseInstr(line)
ExecSpace   == LinesRead < MaxLines /\ ParseSpace(1)
ExecInclude == \E file \in ExecFiles :
                    LinesRead + Len(file) <= MaxLines /\ ParseInclude(file)

\* sim.py __main__ up to the loop, on the binary the assembler wrote.
ExecLoad ==
    /\ stage = "encoded" /\ running = "idle"
    /\ cb_mem' = image
    /\ script' = [timeout |-> MaxLines + 1, has_output |-> FALSE, output |-> <<>>]
    /\ left' = script'.timeout
    /\ uart_tx' = <<>> /\ exit_code' = None /\ running' = "loop"
    /\ UNCHANGED <<pc, regs, pred, cond, num_count, max_count, count_op, cin, ticks,
                   out_pins, last, shadow, counted>>
    /\ UNCHANGED <<asmVars, genVars, benchVars>>

NextExec == ExecInstr \/ ExecSpace \/ ExecInclude \/ ResolveLabels \/ EncodeFile
            \/ ExecLoad \/ RunTick

SpecExec == Init /\ [][NextExec]_vars

----------------------------------------------------------------------------
(* objdump.py merge_same, applied to the lines objdump() made of the file.  *)

\* A line of objdump(): the address it prints, the rest of the line (the raw
\* words and the item's text), and the size of the item.
DumpLine(words, entry) ==
    [addr |-> entry.at,
     value |-> [raw |-> SubSeq(words, entry.at + 1, entry.at + Size(entry.item)),
                item |-> entry.item],
     size |-> Size(entry.item)]

DumpLines(words, entries) == [i \in 1..Len(entries) |-> DumpLine(words, entries[i])]

\* The line ' *' that stands for the lines left out: no address, no words, no
\* item.
Star == [addr |-> None, value |-> [raw |-> <<>>, item |-> Reset.last.instr]]

\* merge_same, the first loop from line i on (no line matches the value None
\* held before the first): a group is pushed when a line with another value
\* is met, with the size of that line, and the last group after the loop,
\* with the size of the last line.
RECURSIVE CountRuns(_, _, _, _, _, _)
CountRuns(lines, i, addr, value, count, counts) ==
    IF i > Len(lines)
    THEN Append(counts, [addr |-> addr, value |-> value,
                         size |-> lines[Len(lines)].size, count |-> count])
    ELSE IF addr # None /\ lines[i].value = value
    THEN CountRuns(lines, i + 1, addr, value, count + 1, counts)
    ELSE CountRuns(lines, i + 1, lines[i].addr, lines[i].value, 1,
                   IF addr # None
                   THEN Append(counts, [addr |-> addr, value |-> value,
                                        size |-> lines[i].size, count |-> count])
                   ELSE counts)

\* merge_same, the second loop on one group.
Regenerate(group) ==
    IF group.count < 3
    THEN [k \in 1..group.count |->
            [addr |-> group.addr + (k - 1) * group.size, value |-> group.value]]
    ELSE <<[addr |-> group.addr, value |-> group.value],
           Star,
           [addr |-> group.addr + group.size + group.size * (group.count - 2),
            value |-> group.value]>>

RECURSIVE RegenerateAll(_, _)
RegenerateAll(counts, i) ==
    IF i > Len(counts) THEN <<>>
    ELSE Regenerate(counts[i]) \o RegenerateAll(counts, i + 1)

\* merge_same: with no line at all, the push after the loop reads `size`
\* before anything was assigned to it.
MergeSame(lines) ==
    IF lines = <<>> THEN [err |-> "UnboundLocalError", lines |-> <<>>]
    ELSE [err |-> "", lines |-> RegenerateAll(CountRuns(lines, 1, None, Star.value, 1, <<>>), 1)]

\* objdump.py __main__ after objdump(): the listing becomes the merged lines.
Merge ==
    /\ stage = "decoded"
    /\ \E res \in {MergeSame(DumpLines(image, listing))} :
        /\ listing' = res.lines
        /\ stage' = (IF res.err # "" THEN Abort(res.err) ELSE "merged")
    /\ UNCHANGED <<items, labels, need_conds, image, simVars>>

----------------------------------------------------------------------------
(* SpecDump: the listing of a file assembled from one-word and two-word     *)
(* instructions and words of zero data, run through merge_same.             *)

DumpSources == {ZeroAdd("none"), TwoWord}

DumpInstr == LinesRead < MaxLines /\ \E line \in DumpSources : ParseInstr(line)
DumpSpace == LinesRead < MaxLines /\ ParseSpace(1)

NextDump == DumpInstr \/ DumpSpace \/ ResolveLabels \/ EncodeFile \/ Objdump \/ Merge

SpecDump == Init /\ [][NextDump]_vars

----------------------------------------------------------------------------
(* uart.py: the transmitter UTX and the receiver URX.                       *)

\* URX.__init__ and UTX.__init__
NewUrx       == [state |-> "idle", bits |-> 0, buf |-> <<>>]
NewUtx(data) == [state |-> "idle_lo", bits |-> 0, data |-> data]

\* A receiver that takes the first byte of a pair as the high byte.
UrxRisingHighFirst(rx, value) ==
    IF rx.state = "idle"
    THEN IF value = 0
         THEN [rx |-> [state |-> "data", bits |-> 0, buf |-> Append(rx.buf, 0)],
               called |-> <<>>]
         ELSE [rx |-> rx, called |-> <<>>]
    ELSE LET n    == Len(rx.buf)
             buf  == [rx.buf EXCEPT ![n] = BitOr(@, Shl(value % 2, rx.bits))]
             bits == rx.bits + 1
         IN  IF bits = 8
             THEN IF Len(buf) >= 2
                  THEN [rx |-> [state |-> "idle", bits |-> 0, buf |-> SubSeq(buf, 3, Len(buf))],
                        called |-> <<BitOr(buf[2], Shl(buf[1], 8))>>]
                  ELSE [rx |-> [state |-> "idle", bits |-> 0, buf |-> buf], called |-> <<>>]
             ELSE [rx |-> [state |-> "data", bits |-> bits, buf |-> buf], called |-> <<>>]

\* URX.rising_edge(value): the receiver after the edge and the words given to
\* the callback.  The state 'data<k>' is held as "data" with bits = k.
UrxRising(rx, value) ==
    IF rx.state = "idle"
    THEN IF value = 0
         THEN [rx |-> [state |-> "data", bits |-> 0, buf |-> Append(rx.buf, 0)],
               called |-> <<>>]
         ELSE [rx |-> rx, called |-> <<>>]
    ELSE LET n    == Len(rx.buf)
             buf  == [rx.buf EXCEPT ![n] = BitOr(@, Shl(value % 2, rx.bits))]
             bits == rx.bits + 1
         IN  IF bits = 8
             THEN IF Len(buf) >= 2
                  THEN [rx |-> [state |-> "idle", bits |-> 0, buf |-> SubSeq(buf, 3, Len(buf))],
                        called |-> <<BitOr(buf[1], Shl(buf[2], 8))>>]
                  ELSE [rx |-> [state |-> "idle", bits |-> 0, buf |-> buf], called |-> <<>>]
             ELSE [rx |-> [state |-> "data", bits |-> bits, buf |-> buf], called |-> <<>>]

\* UTX.rising_edge(ready): the transmitter after the edge, the level it puts
\* on the pin, and the assertion that fails when ready comes with no data.
UtxRising(tx, ready) ==
    IF tx.state = "idle_lo"
    THEN IF ready
         THEN IF tx.data = <<>> THEN [err |-> "No more data to send!", tx |-> tx, out |-> None]
              ELSE [err |-> "", tx |-> [tx EXCEPT !.state = "data", !.bits = 0], out |-> 0]
         ELSE [err |-> "", tx |-> tx, out |-> 1]
    ELSE IF tx.state = "data"
    THEN LET bits    == tx.bits + 1
             shifted == [tx.data EXCEPT ![1] = Shr(@, 1)]
         IN  [err |-> "",
              tx |-> [state |-> IF bits = 8 THEN "idle_hi"
                                ELSE IF bits = 16 THEN "idle_lo" ELSE "data",
                      bits |-> bits,
                      data |-> IF bits = 16 THEN Tail(shifted) ELSE shifted],
              out |-> tx.data[1] % 2]
    ELSE IF tx.state = "idle_hi"
    THEN [err |-> "", tx |-> [tx EXCEPT !.state = "start_hi"], out |-> 1]
    ELSE [err |-> "", tx |-> [tx EXCEPT !.state = "data"], out |-> 0]

----------------------------------------------------------------------------
(* SpecUart: a UTX with a queue of up to MaxWords words, its pin wired to a *)
(* URX that is clocked on the same edge, under any ready signal.            *)

MaxWords == 2

\* 0xa55a, 0x8001, 0x00ff and the two ends of the range
UartData == {0, 255, 32769, 42330, 65535}

UartQueues ==
    UNION {[1..n -> UartData] : n \in 0..MaxWords}

UartSetup ==
    /\ wire = NoUart
    /\ \E data \in UartQueues :
        wire' = [at |-> "run", tx |-> NewUtx(data), rx |-> NewUrx,
                 words |-> data, got |-> <<>>, sent |-> 0, frames |-> <<>>]
    /\ UNCHANGED <<tb, sqi, asmVars, runVars, genVars>>
    /\ UNCHANGED <<pc, regs, pred, cond, num_count, max_count, count_op, cin, ticks,
                   out_pins, last, shadow, counted>>

\* One rising edge of the clock: the transmitter's level goes to the
\* receiver.  sent counts the data bits put out since the last word left the
\* queue, frames holds that count for each word that has left it.
UartClock ==
    /\ wire.at = "run"
    /\ \E ready \in BOOLEAN :
        \E sent \in {UtxRising(wire.tx, ready)} :
            IF sent.err # ""
            THEN wire' = [wire EXCEPT !.at = "error: " \o sent.err]
            ELSE \E rcvd \in {UrxRising(wire.rx, sent.out)} :
                \E n \in {wire.sent + (IF wire.tx.state = "data" THEN 1 ELSE 0)} :
                    wire' = [wire EXCEPT
                                !.tx = sent.tx, !.rx = rcvd.rx,
                                !.got = @ \o rcvd.called,
                                !.sent = IF Len(sent.tx.data) < Len(wire.tx.data) THEN 0 ELSE n,
                                !.frames = IF Len(sent.tx.data) < Len(wire.tx.data)
                                           THEN Append(@, n) ELSE @]
    /\ UNCHANGED <<tb, sqi, asmVars, runVars, genVars>>
    /\ UNCHANGED <<pc, regs, pred, cond, num_count, max_count, count_op, cin, ticks,
                   out_pins, last, shadow, counted>>

NextUart == UartSetup \/ UartClock

SpecUart == Init /\ [][NextUart]_vars

----------------------------------------------------------------------------
(* sqi.py: the model of the serial memory.  The attributes that are None in *)
(* the source are None here, except state, whose None is "none"; data holds *)
(* the bytes of the addresses that were loaded or written.                  *)

WRITE == 2
READ  == 3

AddrMask(a) == a % 65536

ByteAt(data, a) == IF a \in DOMAIN data THEN data[a] ELSE None

AfterAddr == [addr0 |-> "addr1", addr1 |-> "addr2", addr2 |-> "addr3"]

\* Memory.rising_edge(cs, sio): the memory after the edge, or the exception
\* raised on a mode that is neither WRITE nor READ.
SqiRising(m, cs, sio) ==
    IF cs = 1
    THEN [err |-> "", m |-> [m EXCEPT !.addr = None, !.state = "none", !.mode = None]]
    ELSE IF m.state = "none"
    THEN [err |-> "", m |-> [m EXCEPT !.mode = sio % 16, !.state = "mode"]]
    ELSE IF m.state = "mode"
    THEN Let(m.mode * 16 + (sio % 16), LAMBDA mode :
             IF mode \notin {WRITE, READ}
             THEN [err |-> "Unknown mode", m |-> [m EXCEPT !.mode = mode]]
             ELSE [err |-> "", m |-> [m EXCEPT !.mode = mode, !.state = "addr0", !.addr = 0]])
    ELSE IF m.state \in {"addr0", "addr1", "addr2", "addr3"}
    THEN [err |-> "",
          m |-> [m EXCEPT !.addr = AddrMask(m.addr * 16 + (sio % 16)),
                          !.state = IF m.state = "addr3"
                                    THEN IF m.mode = READ THEN "dummy0" ELSE "write0"
                                    ELSE AfterAddr[m.state]]]
    ELSE IF m.state \in {"dummy0", "dummy1"}
    THEN [err |-> "", m |-> [m EXCEPT !.state = IF m.state = "dummy0" THEN "dummy1" ELSE "read0"]]
    ELSE IF m.state = "write0"
    THEN Let(IF ByteAt(m.data, m.addr) = None THEN 0 ELSE m.data[m.addr], LAMBDA old :
             [err |-> "",
              m |-> [m EXCEPT !.data = (m.addr :> ((sio % 16) * 16 + (old % 16))) @@ m.data,
                              !.state = "write1"]])
    ELSE IF m.state = "write1"
    THEN [err |-> "",
          m |-> [m EXCEPT !.data = (m.addr :> ((m.data[m.addr] \div 16) % 16) * 16 + (sio % 16))
                                   @@ m.data,
                          !.addr = AddrMask(m.addr + 1),
                          !.state = "write0"]]
    ELSE [err |-> "", m |-> [m EXCEPT !.state = IF m.state = "read0" THEN "read1" ELSE "read0"]]

\* A falling edge that gives the low nibble first.
SqiFallingLowFirst(m) ==
    IF m.state \notin {"read0", "read1"} THEN [err |-> "", m |-> m, value |-> None]
    ELSE IF ByteAt(m.data, m.addr) = None
    THEN [err |-> "Uninitialised read", m |-> m, value |-> None]
    ELSE IF m.state = "read0"
    THEN [err |-> "", m |-> m, value |-> m.data[m.addr] % 16]
    ELSE [err |-> "", m |-> [m EXCEPT !.addr = AddrMask(m.addr + 1)],
          value |-> (m.data[m.addr] \div 16) % 16]

\* Memory.falling_edge(): the nibble returned (None for nothing), the memory
\* after the edge, or the exception raised on a byte never loaded or written.
SqiFalling(m) ==
    IF m.state \notin {"read0", "read1"} THEN [err |-> "", m |-> m, value |-> None]
    ELSE IF ByteAt(m.data, m.addr) = None
    THEN [err |-> "Uninitialised read", m |-> m, value |-> None]
    ELSE IF m.state = "read0"
    THEN [err |-> "", m |-> m, value |-> (m.data[m.addr] \div 16) % 16]
    ELSE [err |-> "", m |-> [m EXCEPT !.addr = AddrMask(m.addr + 1)],
          value |-> m.data[m.addr] % 16]

----------------------------------------------------------------------------
(* SpecSqi: a memory loaded through the back door and clocked, rising and   *)
(* falling edges in turn, through up to MaxRuns transactions of up to       *)
(* MaxEdges rising edges each, chip select falling and rising at any edge.  *)

MaxEdges == 11
MaxRuns  == 2

\* backdoor_load of 0xa5, 0x3c and 0x7e at the addresses 0xffff, 0 and 1.
SqiImage == (65535 :> 165) @@ (0 :> 60) @@ (1 :> 126)

\* The nibbles the pins carry in each state of a transaction.
SioIn(m) ==
    IF m.state = "none" THEN {0, 15}
    ELSE IF m.state = "mode" THEN {0, WRITE, READ}
    ELSE IF m.state = "write0" THEN {10}
    ELSE IF m.state = "write1" THEN {5}
    ELSE {0, 15}

\* Memory.__init__ and the loads.  edge is the clock edge due next; ins, rises
\* and outs are the first six nibbles taken, the rising edges seen and the
\* values the falling edges returned since chip select fell, idle_out the
\* value of the last falling edge with the memory inactive; runs counts the
\* transactions begun.
SqiSetup ==
    /\ sqi = NoMemory
    /\ sqi' = [at |-> "run", state |-> "none", mode |-> None, addr |-> None,
               data |-> SqiImage, edge |-> "rise", cs |-> 1,
               ins |-> <<>>, rises |-> 0, outs |-> <<>>, idle_out |-> None, runs |-> 0]
    /\ UNCHANGED <<tb, wire, asmVars, runVars, genVars>>
    /\ UNCHANGED <<pc, regs, pred, cond, num_count, max_count, count_op, cin, ticks,
                   out_pins, last, shadow, counted>>

SqiRise ==
    /\ sqi.at = "run" /\ sqi.edge = "rise"
    /\ \E cs \in {0, 1} : \E sio \in SioIn(sqi) :
        /\ cs = 0 => /\ sqi.rises < MaxEdges
                     /\ sqi.state = "none" => sqi.runs < MaxRuns
        /\ \E res \in {SqiRising(sqi, cs, sio)} :
            sqi' = [res.m EXCEPT
                      !.at = IF res.err # "" THEN "error: " \o res.err ELSE @,
                      !.edge = "fall", !.cs = cs,
                      !.ins = IF cs = 1 THEN <<>>
                              ELSE IF Len(@) < 6 THEN Append(@, sio) ELSE @,
                      !.rises = IF cs = 1 THEN 0 ELSE @ + 1,
                      !.outs = IF cs = 1 THEN <<>> ELSE @,
                      !.runs = IF cs = 0 /\ sqi.state = "none" THEN @ + 1 ELSE @]
    /\ UNCHANGED <<tb, wire, asmVars, runVars, genVars>>
    /\ UNCHANGED <<pc, regs, pred, cond, num_count, max_count, count_op, cin, ticks,
                   out_pins, last, shadow, counted>>

SqiFall ==
    /\ sqi.at = "run" /\ sqi.edge = "fall"
    /\ \E res \in {SqiFalling(sqi)} :
        sqi' = [res.m EXCEPT
                  !.at = IF res.err # "" THEN "error: " \o res.err ELSE @,
                  !.edge = "rise",
                  !.outs = IF res.err = "" /\ sqi.rises > 0 THEN Append(@, res.value) ELSE @,
                  !.idle_out = IF sqi.rises = 0 THEN res.value ELSE @]
    /\ UNCHANGED <<tb, wire, asmVars, runVars, genVars>>
    /\ UNCHANGED <<pc, regs, pred, cond, num_count, max_count, count_op, cin, ticks,
                   out_pins, last, shadow, counted>>

NextSqi == SqiSetup \/ SqiRise \/ SqiFall

SpecSqi == Init /\ [][NextSqi]_vars

----------------------------------------------------------------------------
(* tb.py TestBench: the UART scoreboard.  The instruction checker ticks the *)
(* simulator, whose write_uart appends to sim_utx; the UART checker clocks  *)
(* the receiver, whose callback appends to rtl_utx, and then compares.      *)

\* _check_uart_data, the while loop: each pair popped is noted in `popped`
\* with the reference word it was held against (None when none was left) and
\* whether it set exit_code; a failed assertion ends the bench.
RECURSIVE CompareQueues(_)
CompareQueues(b) ==
    IF b.sim_utx = <<>> \/ b.rtl_utx = <<>> THEN b
    ELSE LET sim  == Head(b.sim_utx)
             rtl  == Head(b.rtl_utx)
             ref  == IF b.ref_utx # <<>> THEN Head(b.ref_utx) ELSE None
             pair == [sim |-> sim, rtl |-> rtl, ref |-> ref, sets |-> FALSE]
             c    == [b EXCEPT !.sim_utx = Tail(@), !.rtl_utx = Tail(@)]
         IN  IF sim # rtl
             THEN [c EXCEPT !.at = "error: utx data", !.popped = Append(@, pair)]
             ELSE IF b.ref_utx # <<>>
             THEN IF ref # rtl
                  THEN [c EXCEPT !.at = "error: utx ref", !.ref_utx = Tail(@),
                                 !.popped = Append(@, pair)]
                  ELSE CompareQueues([c EXCEPT !.ref_utx = Tail(@),
                                               !.popped = Append(@, pair)])
             ELSE CompareQueues([c EXCEPT !.exit_code = rtl, !.end_of_test = TRUE,
                                          !.popped = Append(@, [pair EXCEPT !.sets = TRUE])])

\* _check_uart_data(final)
CheckUartData(b, final) ==
    Let(CompareQueues(b), LAMBDA c :
        IF c.at # "run" \/ ~final THEN c
        ELSE IF c.sim_utx # <<>> THEN [c EXCEPT !.at = "error: outstanding sim utx"]
        ELSE IF c.rtl_utx # <<>> THEN [c EXCEPT !.at = "error: outstanding rtl utx"]
        ELSE IF c.sim_urx # <<>> THEN [c EXCEPT !.at = "error: outstanding sim urx"]
        ELSE IF c.rtl_urx # <<>> THEN [c EXCEPT !.at = "error: outstanding rtl urx"]
        ELSE c)

----------------------------------------------------------------------------
(* SpecBench: the scoreboard under every interleaving of the two checkers,  *)
(* for scripts with and without output and input, the simulator and the     *)
(* RTL each sending up to MaxExtra words more than the reference holds.     *)

MaxExtra == 2
MaxQueue == 2

BenchWords   == {0, 1} \cup {END_OF_TEST[i] : i \in 1..Len(END_OF_TEST)}
BenchOutputs == {<<>>, <<-65535>>}
BenchInputs  == {<<>>, <<7>>}

\* TestBench.__init__
BenchInit ==
    /\ tb = NoBench
    /\ \E output \in BenchOutputs, input \in BenchInputs :
        \E ref \in {[i \in 1..Len(output) |-> Mask16(output[i])] \o END_OF_TEST} :
            tb' = [at |-> "run", sim_utx |-> <<>>, rtl_utx |-> <<>>, ref_utx |-> ref,
                   sim_urx |-> input, rtl_urx |-> input,
                   exit_code |-> None, end_of_test |-> FALSE,
                   ref0 |-> ref, sim_n |-> 0, rtl_n |-> 0, popped |-> <<>>]
    /\ UNCHANGED <<sqi, wire, asmVars, runVars, genVars>>
    /\ UNCHANGED <<pc, regs, pred, cond, num_count, max_count, count_op, cin, ticks,
                   out_pins, last, shadow, counted>>

\* _check_instr, an iteration in which sim.tick() transmits: Callback.write_uart
BenchSimWord ==
    /\ tb.at = "run" /\ Len(tb.sim_utx) < MaxQueue
    /\ tb.sim_n < Len(tb.ref0) + MaxExtra
    /\ \E w \in BenchWords :
        tb' = [tb EXCEPT !.sim_utx = Append(@, w), !.sim_n = @ + 1]
    /\ UNCHANGED <<sqi, wire, asmVars, runVars, genVars>>
    /\ UNCHANGED <<pc, regs, pred, cond, num_count, max_count, count_op, cin, ticks,
                   out_pins, last, shadow, counted>>

\* _check_uart, one iteration: urx.rising_edge, whose callback appends a word
\* when one is complete, then _check_uart_data()
BenchClock ==
    /\ tb.at = "run"
    /\ \/ tb' = CheckUartData(tb, FALSE) /\ tb' # tb
       \/ /\ Len(tb.rtl_utx) < MaxQueue /\ tb.rtl_n < Len(tb.ref0) + MaxExtra
          /\ \E w \in BenchWords :
                tb' = CheckUartData([tb EXCEPT !.rtl_utx = Append(@, w), !.rtl_n = @ + 1],
                                    FALSE)
    /\ UNCHANGED <<sqi, wire, asmVars, runVars, genVars>>
    /\ UNCHANGED <<pc, regs, pred, cond, num_count, max_count, count_op, cin, ticks,
                   out_pins, last, shadow, counted>>

\* run(), after end_of_test.wait(): the final checks and the exit code
BenchEnd ==
    /\ tb.at = "run" /\ tb.end_of_test
    /\ \E c \in {CheckUartData(tb, TRUE)} :
        tb' = IF c.at # "run" THEN c
              ELSE IF c.exit_code # 0 THEN [c EXCEPT !.at = "error: exit code"]
              ELSE [c EXCEPT !.at = "done"]
    /\ UNCHANGED <<sqi, wire, asmVars, runVars, genVars>>
    /\ UNCHANGED <<pc, regs, pred, cond, num_count, max_count, count_op, cin, ticks,
                   out_pins, last, shadow, counted>>

NextBench == BenchInit \/ BenchSimWord \/ BenchClock \/ BenchEnd

SpecBench == Init /\ [][NextBench]_vars

----------------------------------------------------------------------------
(* SpecMem: generator jobs over biases of memory instructions and           *)
(* redirects, against tick(instr).  rand_instr is taken whole: the redirect  *)
(* it forces at the end of memory or before used addresses, the address     *)
(* operands it checks with check_space and the immediates of rand_addr.     *)

\* The draws of rand_imm(0, 15) explored for the operands of an instruction
\* with an address operand.
ADraws  == {3}
BDraws  == {1, 2}
CDraws  == {0, 1, REG_SP}
RSDraws == {3, 4}

\* rand_addr: the draws that leave its loop, named by the target they give.
AddrTargets == {31, 33, 35, 1024}

RandAddr(used, offset) ==
    {Mask16((t + 65536) - offset) :
        t \in {u \in AddrTargets : CheckSpace(used, u, 16)}}

\* rand_instr, the c operand of b, j, bl and jl: a register whose target has no
\* room or is the instruction itself is replaced by an immediate.
RedirectOps(st, used, k) ==
    LET rel       == k \in {"b", "bl"}
        addr_base == IF rel THEN Mask16(st.pc + 1) ELSE 0
        Target(c) == Mask16((IF rel THEN st.pc ELSE 0) + st.regs[c])
        IsImm(c)  == \/ c = REG_SP
                     \/ ~CheckSpace(used, Target(c), 16)
                     \/ Target(c) = st.pc
    IN  UNION {IF IsImm(c)
               THEN {[mnem |-> k, ops |-> [c |-> REG_SP, imm |-> v]] :
                        v \in RandAddr(used, addr_base)}
               ELSE {[mnem |-> k, ops |-> [c |-> c]]} :
               c \in CDraws}

\* rand_instr, st and ld: a register offset whose address is used is replaced
\* by an immediate drawn against the base register.
OffsetOps(st, used, k) ==
    UNION {IF c = REG_SP \/ ~CheckSpace(used, Mask16(st.regs[b] + st.regs[c]), 1)
           THEN {[mnem |-> k, ops |-> [a |-> a, b |-> b, c |-> REG_SP, imm |-> v]] :
                    v \in RandAddr(used, st.regs[b])}
           ELSE {[mnem |-> k, ops |-> [a |-> a, b |-> b, c |-> c]]} :
           a \in ADraws, b \in BDraws, c \in CDraws}

\* 'st' if 'st' in mnem else 'ld'
PlainForm(k) == IF k \in {"stm", "st+", "+st", "st-", "-st"} THEN "st" ELSE "ld"

\* rand_instr, the forms that take the address from register b alone: when
\* the address has no room the instruction becomes st or ld with an immediate.
BaseOps(st, used, k) ==
    LET addr_base == IF k \in {"+st", "+ld"} THEN 1
                     ELSE IF k \in {"-st", "-ld"} THEN -1 ELSE 0
        Target(b) == Mask16((st.regs[b] + 65536) + addr_base)
    IN  UNION {IF CheckSpace(used, Target(b), 1)
               THEN {[mnem |-> k, ops |-> [a |-> a, b |-> b]]}
               ELSE {[mnem |-> PlainForm(k),
                      ops |-> [a |-> a, b |-> b, c |-> REG_SP, imm |-> v]] :
                        v \in RandAddr(used, st.regs[b])} :
               a \in ADraws, b \in BDraws}

\* rand_instr, ldm and stm: room for every register of r..s is asked for;
\* without it the instruction becomes st or ld of a = r at base b = s.
RangeOps(st, used, k) ==
    UNION {IF CheckSpace(used, Mask16(st.regs[b]), (((s - r) + 16) % 16) + 1)
           THEN {[mnem |-> k, ops |-> [r |-> r, s |-> s, b |-> b]]}
           ELSE {[mnem |-> PlainForm(k),
                  ops |-> [a |-> r, b |-> s, c |-> REG_SP, imm |-> v]] :
                    v \in RandAddr(used, st.regs[s])} :
           r \in RSDraws, s \in RSDraws, b \in BDraws}

AddrOps(st, used, k) ==
    IF k \in REDIRECTS THEN RedirectOps(st, used, k)
    ELSE IF k \in {"st", "ld"} THEN OffsetOps(st, used, k)
    ELSE IF k \in {"stm", "ldm"} THEN RangeOps(st, used, k)
    ELSE BaseOps(st, used, k)

\* rand_instr, the draw of the mnemonic: at the end of memory, or with a used
\* address in the sixteen words from pc on, one of REDIRECTS is taken instead.
MustRedirect(st, used) == st.pc >= 65535 - 3 \/ ~CheckSpace(used, st.pc, 16)

\* rand_instr with a simulator at st
RandInstrAt(gs, st, mnems) ==
    LET ks == IF MustRedirect(st, gs.used_addrs) THEN REDIRECTS
              ELSE MnemDraws(gs, mnems) \cap (REDIRECTS \cup MEM_OP)
    IN  {TagAndQueue(gs, d.mnem, d.ops, <<>>) :
            d \in UNION {AddrOps(st, gs.used_addrs, k) : k \in ks}}
        \cup (IF MustRedirect(st, gs.used_addrs) THEN {} ELSE RandInstr(gs, mnems))

MemBiases == {{"st", "ld"}, {"+st", "ld-"}, {"stm", "ldm"}, {"j", "bl"}}

\* The immediates rand_init draws: one value for r1 and one for the others.
MemInitDraws ==
    {[i \in 1..15 |-> IF i = 1 THEN v ELSE w] : v \in {31, 512}, w \in {1, 65535}}

\* parse_args, State() and sim.Sim(Callback(state))
MemArgs ==
    /\ gen.at = "idle" /\ running = "idle" /\ stage = "parse" /\ ticks = 0
    /\ \E n \in 1..MaxInstrs, b \in MemBiases :
        gen' = [at |-> "init", num_instr |-> n, mnems |-> b, todo |-> n,
                sim |-> "tick(instr)"]
    /\ state' = NoState
    /\ UNCHANGED <<pc, regs, pred, cond, num_count, max_count, count_op, cin, ticks,
                   out_pins, last, shadow, counted>>
    /\ UNCHANGED <<asmVars, runVars, benchVars>>

\* __main__: instrs = rand_init(state)
MemInit ==
    /\ gen.at = "init"
    /\ \E draws \in MemInitDraws :
        SetGen(RandInit(gen.sim, Acc(Now, state), draws), "loop", gen.todo)

\* __main__, one iteration of the loop: rand_instr, alloc_instr and the tick
\* of a copy, with the callbacks of the tick.
MemInstr ==
    /\ gen.at = "loop" /\ gen.todo > 0
    /\ \E r \in RandInstrAt(state, Now, gen.mnems) :
        SetGen(Emit(gen.sim,
                    Acc(Now, [state EXCEPT !.cond = r.cond, !.count = r.count]),
                    r.instr, r.tags),
               "loop", gen.todo - 1)

NextMem == MemArgs \/ MemInit \/ MemInstr \/ EndPad \/ EndMarker \/ Save

SpecMem == Init /\ [][NextMem]_vars

----------------------------------------------------------------------------
(* Properties of the simulator, checked under Spec.                         *)

CallsOf(name) == {i \in 1..Len(last.calls) : last.calls[i].cb = name}

\* C1: the zero register holds 0 in every state reached from reset, whatever
\* was ticked, and the write_reg observer is never called for register 0.
C1_ZeroRegister ==
    /\ regs[0] = 0
    /\ \A i \in CallsOf("write_reg") : last.calls[i].x # 0

\* An ldm over r15..r1, which covers r0, has run and loaded its other registers.
C1_Witness ==
    /\ last.ran /\ last.instr.mnem = "ldm"
    /\ last.instr.ops["r"] = 15 /\ last.instr.ops["s"] = 1
    /\ Cardinality(CallsOf("read_mem")) = 3
    /\ regs[15] # None /\ regs[1] # None

\* C2: at every tick, if cond holds follower bits the fetched instruction runs
\* iff the low bit of cond equals p as it stood at the start of the tick, and
\* the bit is shifted out whether or not it runs; if cond holds no bits the
\* instruction runs and cond is left alone.  (An executed shadow setter then
\* writes cond anew; otherwise cond after the tick is cond after the check.)
C2_ShadowRule ==
    [][ /\ cond \notin {0, 1} =>
            /\ last'.ran = ((cond % 2 = 1) = pred)
            /\ last'.checked = cond \div 2
        /\ cond \in {0, 1} => last'.ran /\ last'.checked = cond
        /\ ~(last'.ran /\ last'.instr.mnem \in ShadowSetters) => cond' = last'.checked
      ]_vars

\* An instruction fetched under a pending .t bit was skipped, and the bit is gone.
C2_Witness ==
    /\ ~last.ran /\ last.instr.cond = ".t" /\ cond \in {0, 1}

\* The 16-bit word a value stands for, unsigned and signed.
Word16(x) == x % 65536
Signed16(x) == IF Word16(x) >= 32768 THEN Word16(x) - 65536 ELSE Word16(x)

\* The boolean a comparison of two 16-bit words is to give: lt and ge signed,
\* ltu and geu unsigned.
Compared(mnem, lhs, rhs) ==
    IF mnem \in {"eq", "eqx"} THEN Word16(lhs) = Word16(rhs)
    ELSE IF mnem \in {"ne", "nex"} THEN Word16(lhs) # Word16(rhs)
    ELSE IF mnem \in {"lt", "ltx"} THEN Signed16(lhs) < Signed16(rhs)
    ELSE IF mnem \in {"ltu", "ltux"} THEN Word16(lhs) < Word16(rhs)
    ELSE IF mnem \in {"ge", "gex"} THEN Signed16(lhs) >= Signed16(rhs)
    ELSE IF mnem \in {"geu", "geux"} THEN Word16(lhs) >= Word16(rhs)
    ELSE BitAnd(Word16(lhs), Word16(rhs)) # 0

\* C6: an executed comparison of written registers with result r sets p to
\* p AND r in andp mode, to p OR r in orp mode and to r otherwise, where lt and
\* ge compare the operands as signed 16-bit values and ltu and geu as unsigned.
C6_PredCombination ==
    [][ (last'.ran /\ last'.instr.mnem \in CmpMnems
                   /\ regs[last'.instr.ops["b"]] # None) =>
            LET i == last'.instr
                r == Compared(i.mnem, regs[i.ops["b"]], Operand(Now, i.ops))
            IN  pred' = IF count_op = "and" THEN pred /\ r
                        ELSE IF count_op = "or" THEN pred \/ r
                        ELSE r
      ]_vars

\* C8: an executed add writes a = (b + c + cin_in) mod 2^16 and latches cin to
\* the carry out of bit 15 of the sum of the 16-bit operand values, cin_in being
\* the latched cin in carry mode and 0 otherwise; sub likewise with
\* b - c - cin_in and cin the borrow.
C8_AddSubCarry ==
    [][ (last'.ran /\ last'.instr.mnem \in AddSubMnems) =>
            LET i      == last'.instr
                b16    == Word16(regs[i.ops["b"]])
                c16    == Word16(Operand(Now, i.ops))
                cin_in == IF count_op = "carry" THEN cin ELSE 0
                sum    == IF i.mnem = "add" THEN b16 + c16 + cin_in
                          ELSE b16 - c16 - cin_in
            IN  /\ i.ops["a"] # REG_ZR => regs'[i.ops["a"]] = sum % 65536
                /\ cin' = IF sum \in 0..65535 THEN 0 ELSE 1
      ]_vars

\* C9: an executed b at address P leaves pc = (P + (1 if it has an immediate)
\* + signed16(operand)) mod 2^16 and an executed j leaves pc = operand mod 2^16,
\* for every target including address 0; an instruction that returns no
\* redirect leaves pc = P + size.
C9_Redirect ==
    [][ LET i == last'.instr
        IN  /\ (last'.ran /\ i.mnem = "b") =>
                    pc' = (pc + (IF HasImm(i) THEN 1 ELSE 0)
                              + Signed16(Operand(Now, i.ops))) % 65536
            /\ (last'.ran /\ i.mnem = "j") => pc' = Word16(Operand(Now, i.ops))
            /\ (~last'.ran \/ i.mnem \notin JmpMnems) => pc' = pc + Size(i)
      ]_vars

\* C10: after an executed bl or jl at address P, lr holds the address of the
\* next sequential instruction, P + 1 for the register form and P + 2 for the
\* immediate form.
C10_LinkRegister ==
    [][ (last'.ran /\ last'.instr.mnem \in {"bl", "jl"}) =>
            regs'[REG_LR] = Word16(pc + Size(last'.instr))
      ]_vars

----------------------------------------------------------------------------
(* Properties of shadow setters, checked under SpecShadow.                  *)

\* (1 << k) | sum((t_i == '.t') << i) for the tags t_0..t_(k-1)
RECURSIVE TagSum(_, _)
TagSum(tags, n) ==
    IF n = 0 THEN 0
    ELSE TagSum(tags, n - 1) + (IF tags[n] = ".t" THEN Pow2(n - 1) ELSE 0)

TagMask(tags) == Pow2(Len(tags)) + TagSum(tags, Len(tags))

\* For every cex with 1..7 tagged followers the word encodes and the mask
\* decoded from it is (1 << k) | sum((t_i == '.t') << i).
CexMasksAgree ==
    \A k \in 1..CexFollowers : \A tags \in TagSeqs(k) :
        /\ Fetchable(CexItem(tags))
        /\ Fetch(CexItem(tags)).cex_mask = TagMask(tags)

IsAdd(instr, a, imm) ==
    /\ instr.mnem = "add"
    /\ instr.ops = [a |-> a, b |-> REG_ZR, c |-> REG_SP, imm |-> imm]

\* C3: the encoder gives a cex with followers tagged t_0..t_(k-1) the mask
\* (1 << k) | sum((t_i == '.t') << i); once the simulator has executed the cex,
\* the i-th instruction after it executes iff (t_i == '.t') equals p at that
\* tick, for i < k, and the (k+1)-th executes, as long as no shadow setter has
\* executed since.  With p = 1, cex 2; add.t r1, zr, 1; add.f r2, zr, 2 writes
\* r1 = 1 and leaves r2 as it was.
C3_CexEndToEnd ==
    [][ /\ CexMasksAgree
        /\ (last'.ran /\ last'.instr.mnem = "cex") =>
                /\ last'.instr.cex_mask = TagMask(shadow'.tags)
                /\ cond' = TagMask(shadow'.tags)
        /\ (shadow.by = "cex" /\ shadow.since < Len(shadow.tags)) =>
                (last'.ran <=> ((shadow.tags[shadow.since + 1] = ".t") <=> pred))
        /\ (shadow.by = "cex" /\ shadow.since = Len(shadow.tags)) => last'.ran
        /\ (shadow.by = "cex" /\ shadow.tags = <<".t", ".f">> /\ pred) =>
                /\ (shadow.since = 0 /\ IsAdd(last'.instr, 1, 1)) => regs'[1] = 1
                /\ (shadow.since = 1 /\ IsAdd(last'.instr, 2, 2)) => regs'[2] = regs[2]
      ]_vars

\* cex 2; add.t r1, zr, 1; add.f r2, zr, 2 has run with p = 1, and one more
\* instruction after it: r1 is written, r2 is not.
C3_Witness ==
    /\ shadow.by = "cex" /\ shadow.tags = <<".t", ".f">> /\ shadow.since = 3
    /\ pred /\ regs[1] = 1 /\ regs[2] = None /\ last.ran

\* C4 as stated: after an executed x compare cond is 0b11, the next instruction
\* is conditional and executes iff the predicate just written is true, and the
\* instruction after that one executes unconditionally; eqx of two registers
\* holding different values leaves p false.
C4_AsStated ==
    [][ /\ (last'.ran /\ last'.instr.mnem \in CMPX) => cond' = 3
        /\ (last.ran /\ last.instr.mnem \in CMPX) =>
                /\ last'.instr.cond = ".t"
                /\ last'.ran <=> pred
        /\ (last.before.ran /\ last.before.mnem \in CMPX) =>
                /\ last'.instr.cond = "none"
                /\ last'.ran
        /\ (last'.ran /\ last'.instr.mnem = "eqx" /\ ~HasImm(last'.instr)
                      /\ regs[last'.instr.ops["b"]] # None
                      /\ Word16(regs[last'.instr.ops["b"]])
                            # Word16(regs[last'.instr.ops["c"]])) =>
                ~pred'
      ]_vars

\* C4: after an executed x compare cond is 0b11, the next instruction is
\* conditional and executes iff the predicate just written is true; the
\* instruction after that one executes unconditionally unless the conditional
\* one was itself an executed shadow setter; eqx of two registers holding
\* different values leaves p false unless orp mode is active with p true.
C4_CompareAndExecute ==
    [][ /\ (last'.ran /\ last'.instr.mnem \in CMPX) => cond' = 3
        /\ (last.ran /\ last.instr.mnem \in CMPX) =>
                /\ last'.instr.cond = ".t"
                /\ last'.ran <=> pred
        /\ (last.before.ran /\ last.before.mnem \in CMPX
                /\ ~(last.ran /\ last.instr.mnem \in ShadowSetters)) =>
                /\ last'.instr.cond = "none"
                /\ last'.ran
        /\ (last'.ran /\ last'.instr.mnem = "eqx" /\ ~HasImm(last'.instr)
                      /\ regs[last'.instr.ops["b"]] # None
                      /\ Word16(regs[last'.instr.ops["b"]])
                            # Word16(regs[last'.instr.ops["c"]])
                      /\ ~(count_op = "or" /\ pred)) =>
                ~pred'
      ]_vars

\* eqx r3, zr with r3 = 1 has left p false, its follower was skipped and the
\* instruction after the follower has run.
C4_Witness ==
    /\ last.before.mnem = "add" /\ ~last.before.ran
    /\ shadow.by = "eqx" /\ shadow.since = 2 /\ ~pred
    /\ last.ran /\ last.instr.cond = "none"

----------------------------------------------------------------------------
(* Properties of the count-op mode, checked under SpecCount and SpecPred.   *)

ModeOf(mnem) == IF mnem = "carry" THEN "carry" ELSE IF mnem = "andp" THEN "and" ELSE "or"

\* C5: once a carry j, andp j or orp j has executed, and until another
\* configurator executes, the count-op mode is the mode set while fewer than j
\* ticks have followed (skipped ones counted) and none from then on; with j = 0
\* the mode is none as soon as the configurator's tick ends.
C5_CountOpDuration ==
    counted.by # "none" =>
        count_op = IF counted.since < counted.j THEN ModeOf(counted.by) ELSE "none"

\* A configurator with the largest count has executed as the .t follower of a
\* cex, the .f follower after it was skipped and counted, and the mode has just
\* run out.
C5_Witness ==
    /\ counted.by # "none" /\ counted.j = MaxJ /\ counted.since = MaxJ
    /\ shadow.by = "cex" /\ shadow.tags = <<".t", ".f">>
    /\ shadow.since = counted.since + 1 /\ pred
    /\ count_op = "none"

\* C7 as stated: after an executed putp, p is the least-significant bit of the
\* operand whatever the count-op mode and the previous p.
C7_AsStated ==
    [][ (last'.ran /\ last'.instr.mnem = "putp") =>
            pred' = (Word16(Operand(Now, last'.instr.ops)) % 2 = 1)
      ]_vars

----------------------------------------------------------------------------
(* Properties of the memory instructions, checked under Spec.  last'.calls  *)
(* is the sequence of callback calls of the tick; the unprimed variables    *)
(* are the state before the instruction.                                    *)

\* The memory accesses among the calls of a tick, in order.
MemCalls(calls) == SelectSeq(calls, LAMBDA k : k.cb \in {"read_mem", "write_mem"})

WritebackStores == {"st+", "st-", "+st", "-st"}

\* The store with write back ticked last, with a = b, has run.
SameRegStore(instr, ran) ==
    /\ ran /\ instr.mnem \in WritebackStores
    /\ instr.ops["a"] = instr.ops["b"]

WroteReg(calls, r, v) == \E j \in 1..Len(calls) : calls[j] = Call("write_reg", r, v)

\* The registers written by the calls of a tick.
RegsWritten(calls) == {calls[j].x : j \in {n \in 1..Len(calls) : calls[n].cb = "write_reg"}}

RangeLen(ops) == ((ops["s"] - ops["r"]) % 16) + 1
RangeReg(ops, i) == (ops["r"] + i) % 16

\* C13: an executed ldm or stm r..s, b performs exactly ((s - r) mod 16) + 1
\* memory accesses, the i-th (from 0) transferring register (r + i) mod 16 at
\* address (B + i) mod 2^16, B being b before the instruction; b is not
\* written back: it changes only if it lies in the loaded range.
C13_LdmStm ==
    [][ (last'.ran /\ last'.instr.mnem \in {"ldm", "stm"}) =>
            LET k   == last'.instr.mnem
                ops == last'.instr.ops
                B   == regs[ops["b"]]
                mem == MemCalls(last'.calls)
                n   == RangeLen(ops)
                rng == {RangeReg(ops, i) : i \in 0..(n - 1)}
            IN  /\ Len(mem) = n
                /\ \A i \in 0..(n - 1) :
                        /\ mem[i + 1].x = Word16(B + i)
                        /\ k = "stm" =>
                                /\ mem[i + 1].cb = "write_mem"
                                /\ mem[i + 1].y = regs[RangeReg(ops, i)]
                        /\ k = "ldm" =>
                                /\ mem[i + 1].cb = "read_mem"
                                /\ RangeReg(ops, i) # REG_ZR =>
                                        regs'[RangeReg(ops, i)] = mem[i + 1].y
                /\ \A q \in 0..15 : (k = "stm" \/ q \notin rng) => regs'[q] = regs[q]
      ]_vars

\* The same with the first address as _ldstm takes it, the value of b as held.
C13_FirstAddressAsHeld ==
    [][ (last'.ran /\ last'.instr.mnem \in {"ldm", "stm"}) =>
            LET k   == last'.instr.mnem
                ops == last'.instr.ops
                B   == regs[ops["b"]]
                mem == MemCalls(last'.calls)
                n   == RangeLen(ops)
                rng == {RangeReg(ops, i) : i \in 0..(n - 1)}
            IN  /\ Len(mem) = n
                /\ \A i \in 0..(n - 1) :
                        /\ mem[i + 1].x = (IF i = 0 THEN B ELSE Word16(B + i))
                        /\ k = "stm" =>
                                /\ mem[i + 1].cb = "write_mem"
                                /\ mem[i + 1].y = regs[RangeReg(ops, i)]
                        /\ k = "ldm" =>
                                /\ mem[i + 1].cb = "read_mem"
                                /\ RangeReg(ops, i) # REG_ZR =>
                                        regs'[RangeReg(ops, i)] = mem[i + 1].y
                /\ \A q \in 0..15 : (k = "stm" \/ q \notin rng) => regs'[q] = regs[q]
      ]_vars

----------------------------------------------------------------------------
(* The width of register values.                                            *)

\* C14: every register that has been written holds a value in 0..65535, and
\* every value passed to the write_reg observer is in 0..65535.
C14_SixteenBit ==
    /\ \A i \in 0..15 : regs[i] # None => regs[i] \in 0..65535
    /\ \A j \in CallsOf("write_reg") : last.calls[j].y \in 0..65535

----------------------------------------------------------------------------
(* Properties of the encoder and the decoder, checked under SpecCodec.      *)

Aborted == stage \notin {"parse", "resolved", "encoded", "decoded"}

\* The listing gives back the items: as many, each with the mnemonic, the
\* operand values (imm and the count m included) and the tag of its source.
SameItems ==
    /\ Len(listing) = Len(items)
    /\ \A i \in 1..Len(items) :
            /\ listing[i].item.mnem = items[i].item.mnem
            /\ listing[i].item.ops = items[i].item.ops
            /\ listing[i].item.cond = items[i].item.cond

\* C15: every legal instruction, with any immediate from -32768 to 65535 and,
\* for cex, 1..7 tagged followers, is encoded and decoded without failure, and
\* decoding returns the same mnemonic, operand values and follower tags.
C15_RoundTrip ==
    /\ ~Aborted
    /\ stage = "decoded" => SameItems

\* The same for the immediates struct.pack('>h') takes.
C15_SignedImmediates ==
    (\A i \in 1..Len(items) :
        HasImm(items[i].item) => PackSignedOk(items[i].item.ops["imm"]))
    => C15_RoundTrip

\* Every two distinct mnemonics differ in a bit that both patterns fix.
PatternsDiffer ==
    \A k1 \in Mnemonics : \A k2 \in Mnemonics \ {k1} :
        \E i \in 1..16 :
            /\ ENCODINGS[k1][i] \in {"0", "1"} /\ ENCODINGS[k2][i] \in {"0", "1"}
            /\ ENCODINGS[k1][i] # ENCODINGS[k2][i]

\* C17: at most one mnemonic matches any 16-bit word, every two distinct
\* mnemonics differing in a bit fixed by both patterns, and the decoder never
\* reports multiple candidates.
C17_NoCollision ==
    /\ PatternsDiffer
    /\ stage = "encoded" => Cardinality(Matches(image[1])) <= 1
    /\ stage # Abort("Multiple candidates for encoding")

\* The word 0xc010, which the patterns of b and addpc tell apart by one bit,
\* has been decoded as b zr.
C17_Witness ==
    /\ stage = "decoded" /\ image[1] = 49168
    /\ listing[1].item.mnem = "b" /\ listing[1].item.ops["c"] = 0

----------------------------------------------------------------------------
(* Properties of the assembler, checked under SpecLine and SpecAsm.         *)

\* C16: an immediate the assembler has accepted in a c operand (a numeric or
\* character literal from -32768 to 65535) is encoded without failure, and the
\* second word of the instruction is the immediate mod 2^16.
C16_ImmediateWord ==
    \A i \in 1..Len(items) :
        (HasImm(items[i].item) /\ items[i].ref = NoRef) =>
            /\ ~Aborted
            /\ stage \in {"encoded", "decoded"} =>
                    image[Address(SubSeq(items, 1, i - 1)) + 2]
                        = items[i].item.ops["imm"] % 65536

\* The same for the immediates struct.pack('>h') takes.
C16_SignedImmediates ==
    (\A i \in 1..Len(items) :
        HasImm(items[i].item) => PackSignedOk(items[i].item.ops["imm"]))
    => C16_ImmediateWord

\* The address the assembler gives to item i: the sizes of the items before it.
AddressOf(i) == Address(SubSeq(items, 1, i - 1))

\* C18: every item has size 1 or 2; an instruction has size 2 exactly when it
\* carries an imm operand, which is exactly when its first encoded word has a c
\* field and the field is 1111; the decoder takes a second word exactly then,
\* so it starts each instruction at the offset that is the item's address, and
\* every label was declared at the address of an item or at the end.
C18_SizeConsistency ==
    /\ \A i \in 1..Len(items) :
            /\ Size(items[i].item) \in {1, 2}
            /\ Size(items[i].item) = 2 <=> HasImm(items[i].item)
    /\ \A name \in DOMAIN labels : \A k \in 1..Len(labels[name]) :
            \E i \in 1..(Len(items) + 1) : labels[name][k] = AddressOf(i)
    /\ stage \in {"encoded", "decoded"} =>
            /\ Len(image) = AddressOf(Len(items) + 1)
            /\ \A i \in 1..Len(items) :
                    ~IsRaw(items[i].item) =>
                        (HasImm(items[i].item) <=>
                            /\ "c" \in OpsOf(items[i].item.mnem)
                            /\ DecodeOps(items[i].item.mnem, image[AddressOf(i) + 1])["c"]
                                    = REG_SP)
    /\ stage = "decoded" =>
            /\ Len(listing) = Len(items)
            /\ \A i \in 1..Len(items) :
                    /\ listing[i].at = AddressOf(i)
                    /\ Size(listing[i].item) = Size(items[i].item)

\* add r1, zr, 5; j: ldm r1..r2, sp; b @j has been assembled and listed: the
\* ldm, whose low four bits are 1111, is one word at offset 2, where j is.
C18_Witness ==
    /\ stage = "decoded" /\ Len(image) = 5 /\ Len(listing) = 3
    /\ <<"j">> \in DOMAIN labels /\ labels[<<"j">>] = <<2>>
    /\ listing[1].item.mnem = "add" /\ listing[1].at = 0
    /\ listing[2].item.mnem = "ldm" /\ listing[2].at = 2 /\ image[3] % 16 = 15
    /\ listing[3].item.mnem = "b" /\ listing[3].at = 3

Resolved == stage \in {"resolved", "encoded", "decoded"}

\* Every @ reference to a label declared once holds the displacement from the
\* word after the referencing instruction's address, and is encoded as that.
RelativeDisplacements ==
    Resolved =>
        \A i \in 1..Len(items) :
            (/\ items[i].ref.sigil = "@"
             /\ RefName(items[i].ref) \in DOMAIN labels
             /\ Len(labels[RefName(items[i].ref)]) = 1) =>
                /\ items[i].item.ops["imm"]
                        = labels[RefName(items[i].ref)][1] - (AddressOf(i) + 1)
                /\ stage # "resolved" =>
                        image[AddressOf(i) + 2] = items[i].item.ops["imm"] % 65536

\* The source is: label j, a one-word instruction, and b with reference ref.
BranchBackToJ(ref) ==
    /\ Len(items) = 2 /\ DOMAIN labels = {<<"j">>} /\ labels[<<"j">>] = <<0>>
    /\ items[1].ref = NoRef /\ Size(items[1].item) = 1
    /\ items[2].item.mnem = "b" /\ items[2].ref = ref

\* In that source the reference is resolved to -2 and encoded as 0xfffe.
ResolvedToMinusTwo ==
    /\ stage # Abort("Reference to undefined label")
    /\ Resolved => items[2].item.ops["imm"] = -2
    /\ stage \in {"encoded", "decoded"} => image[3] = 65534

\* C19 as stated: with label j at address 0, `b @jb` at address 1 gets the
\* immediate -2.
C19_AsStated ==
    /\ RelativeDisplacements
    /\ BranchBackToJ(Ref("@", <<"j", "b">>)) => ResolvedToMinusTwo

\* C19: a reference @name in an instruction at address A resolves to
\* addr(name) - (A + 1), addresses being the sums of the sizes of the items
\* before; with label j at address 0, `b @j` at address 1 gets the immediate
\* -2, encoded 0xfffe.
C19_RelativeDisplacement ==
    /\ RelativeDisplacements
    /\ BranchBackToJ(Ref("@", <<"j">>)) => ResolvedToMinusTwo

\* j: add r2, r1, r1; b @j has been assembled: the third word is 0xfffe.
C19_Witness ==
    /\ BranchBackToJ(Ref("@", <<"j">>)) /\ stage = "encoded"
    /\ items[2].item.ops["imm"] = -2 /\ image[3] = 65534

\* The addresses at which the label of a reference was declared.
Definitions(ref) == {labels[RefName(ref)][k] : k \in 1..Len(labels[RefName(ref)])}

\* The definition a resolved relative reference of item i points to.
TargetOf(i) == items[i].item.ops["imm"] + AddressOf(i) + 1

\* The definitions a search from item i may choose from.
Eligible(i) ==
    IF RefSearch(items[i].ref) = "f"
    THEN {d \in Definitions(items[i].ref) : d > AddressOf(i)}
    ELSE {d \in Definitions(items[i].ref) : d <= AddressOf(i)}

\* The resolved references @<num>f and @<num>b.
LocalRefs ==
    {i \in 1..Len(items) :
        /\ items[i].ref.sigil = "@" /\ IsLocalRef(items[i].ref)
        /\ RefName(items[i].ref) \in DOMAIN labels}

\* C20: every resolved @<num>f reference points to the smallest definition
\* address of local label <num> strictly greater than the address of the
\* referencing instruction, and every resolved @<num>b reference to the
\* largest definition address less than or equal to it.
C20_LocalSelection ==
    Resolved =>
        \A i \in LocalRefs :
            /\ TargetOf(i) \in Eligible(i)
            /\ \A d \in Eligible(i) :
                    IF RefSearch(items[i].ref) = "f" THEN TargetOf(i) <= d
                    ELSE d <= TargetOf(i)

\* The same where a definition in the direction searched exists.
C20_WhereEligible ==
    Resolved =>
        \A i \in LocalRefs :
            Eligible(i) # {} =>
                /\ TargetOf(i) \in Eligible(i)
                /\ \A d \in Eligible(i) :
                        IF RefSearch(items[i].ref) = "f" THEN TargetOf(i) <= d
                        ELSE d <= TargetOf(i)

----------------------------------------------------------------------------
(* Properties of the label handling, checked under SpecLabels.              *)

\* The assembler wrote the whole file: only objdump runs, or fails, after it.
Assembled ==
    stage \in {"encoded", "decoded", Abort("No matches for encoding"),
               Abort("Multiple candidates for encoding"), Abort("struct.error")}

\* Item i refers to a label that has no definition, or refers absolutely to a
\* label with several definitions or with an f or b suffix.
Offending(i) ==
    /\ items[i].ref # NoRef
    /\ \/ RefName(items[i].ref) \notin DOMAIN labels
       \/ /\ items[i].ref.sigil = "$"
          /\ \/ Len(labels[RefName(items[i].ref)]) > 1
             \/ IsLocalRef(items[i].ref)

\* Item i holds an address taken from exactly one definition of its label.
ResolvedToOne(i) ==
    /\ RefName(items[i].ref) \in DOMAIN labels
    /\ items[i].ref.sigil = "$" => labels[RefName(items[i].ref)] = <<items[i].item.ops["imm"]>>
    /\ items[i].ref.sigil = "@" => TargetOf(i) \in Definitions(items[i].ref)

\* C21: a global label never has two definitions (its second declaration
\* aborts); a reference to an undefined label, an absolute reference to a
\* label with several definitions and an absolute reference with an f or b
\* suffix are never resolved to an address and their program is never
\* assembled; in an assembled program every reference holds the address of
\* exactly one definition of its label.
C21_LabelErrors ==
    /\ \A n \in DOMAIN labels : ~IsDigit(n) => Len(labels[n]) = 1
    /\ \A i \in 1..Len(items) :
            Offending(i) =>
                /\ ~Assembled
                /\ items[i].item.ops["imm"] = None
                /\ stage = "resolved" => labels = <<>>
    /\ Assembled =>
            \A i \in 1..Len(items) : items[i].ref # NoRef => ResolvedToOne(i)

\* `1:` `1:` `b $1` stops the assembler in resolve_labels.
C21_Witness ==
    /\ stage = Abort("TypeError")
    /\ \E i \in 1..Len(items) :
            /\ Offending(i) /\ items[i].ref = Ref("$", <<"1">>)
            /\ Len(labels[<<"1">>]) = 2

----------------------------------------------------------------------------
(* Properties of the assembler's condition checks, checked under SpecTags.  *)

\* The followers still owed to a shadow setter when item i of the binary is
\* reached: the count of the setter just before it, or one less than before.
RECURSIVE Pending(_)
Pending(i) ==
    IF i = 1 THEN 0
    ELSE IF NumCond(items[i - 1].item) # 0 THEN NumCond(items[i - 1].item)
    ELSE IF Pending(i - 1) > 0 THEN Pending(i - 1) - 1 ELSE 0

\* C22: in every assembled program each item inside the window of a shadow
\* setter (the m items after a cex, the one item after an x compare) is an
\* instruction with a .t or .f suffix that is not itself a shadow setter, and
\* no item outside a window carries a suffix.
C22_ShadowDiscipline ==
    Assembled =>
        \A i \in 1..Len(items) :
            IF Pending(i) > 0
            THEN /\ ~IsRaw(items[i].item)
                 /\ items[i].item.cond \in {".t", ".f"}
                 /\ NumCond(items[i].item) = 0
            ELSE items[i].item.cond = "none"

----------------------------------------------------------------------------
(* Properties of the synonyms, checked under SpecLine.                      *)

SynonymLines == {line \in LineLines : line.mnem \in DOMAIN SYNONYMS}

\* The line a synonym stands for.
Expansion(line) ==
    IF line.mnem = "mov"
    THEN InstrLine("add", line.cond, <<"a", "b", "c">>,
                   <<line.tokens[1], Reg("zr"), line.tokens[2]>>)
    ELSE IF line.mnem = "ret"
    THEN InstrLine("j", line.cond, <<"c">>, <<Reg("lr")>>)
    ELSE IF line.mnem = "nop"
    THEN InstrLine("add", line.cond, <<"a", "b", "c">>, <<Reg("zr"), Reg("zr"), Reg("zr")>>)
    ELSE IF line.mnem = "push"
    THEN InstrLine("-st", line.cond, <<"a", "b">>, <<line.tokens[1], Reg("sp")>>)
    ELSE IF line.mnem = "pop"
    THEN InstrLine("ld+", line.cond, <<"a", "b">>, <<line.tokens[1], Reg("sp")>>)
    ELSE InstrLine("add", line.cond, <<"a", "b", "c">>,
                   <<line.tokens[1], line.tokens[2], line.tokens[2]>>)

\* The expansion of the line is itself parsed and encoded without error.
LegalExpansion(line) ==
    /\ ParseInstrResult(Expansion(line), items, need_conds).err = ""
    /\ EncodeItemOk(ParseInstrResult(Expansion(line), items, need_conds).entry.item, <<>>)

\* The step parsed the line into the item its expansion is parsed into, and
\* the item is encoded without error, into the words of the expansion.
AsExpansion(line) ==
    /\ stage' = "parse"
    /\ items' = Append(items, ParseInstrResult(Expansion(line), items, need_conds).entry)
    /\ EncodeItemOk(items'[Len(items')].item, <<>>)
    /\ EncodeItem(items'[Len(items')].item, <<>>)
            = EncodeItem(ParseInstrResult(Expansion(line), items, need_conds).entry.item, <<>>)

\* C23: every synonym line whose expansion is a legal line (mov a, x as
\* add a, zr, x; ret as j lr; nop as add zr, zr, zr; push a as -st a, sp;
\* pop a as ld+ a, sp; sll a, b as add a, b, b) is parsed into the item of its
\* expansion and so assembles to the words of the expansion.
C23_Synonyms ==
    [][\A line \in SynonymLines :
            (ParseInstr(line) /\ LegalExpansion(line)) => AsExpansion(line)]_vars

\* mov, ret, nop, push and pop are parsed into the item of their expansion.
C23_AllButSll ==
    [][\A line \in SynonymLines :
            (ParseInstr(line) /\ LegalExpansion(line) /\ line.mnem # "sll")
                => AsExpansion(line)]_vars

----------------------------------------------------------------------------
(* Properties of the assembler and objdump together, under SpecTags.        *)

\* The listing gives back every instruction of the source: its mnemonic after
\* synonym expansion, its operand values and its tag.
SameInstructions ==
    /\ Len(listing) = Len(items)
    /\ \A i \in 1..Len(items) :
            ~IsRaw(items[i].item) =>
                /\ listing[i].item.mnem = items[i].item.mnem
                /\ listing[i].item.ops = items[i].item.ops
                /\ listing[i].item.cond = items[i].item.cond

\* Encoding the listing, each instruction with those after it as followers,
\* gives the words of the file.
ReEncodes == EncodeFrom(listing, 1, <<>>) = [err |-> "", words |-> image]

RoundTrip ==
    /\ Assembled => stage \in {"encoded", "decoded"}
    /\ stage = "decoded" => SameInstructions /\ ReEncodes

\* C24: every file the assembler writes is decoded without error into the
\* instructions of the source (mnemonic after synonym expansion, operand
\* values, .t/.f tag or none), and encoding the decoded list again gives the
\* same words.
C24_RoundTrip == RoundTrip

\* The round trip holds for the sources that keep the shadow discipline.
C24_WithinDiscipline == C22_ShadowDiscipline => RoundTrip

----------------------------------------------------------------------------
(* Properties of the run loop, checked under SpecRun.                       *)

\* The run is over: it succeeded or ended in an error.
Ended == running \notin {"idle", "loop"}

\* The last eight words of tx are the code points of @@END@@ and one more.
MarkerThenWord(tx) ==
    /\ Len(tx) >= 8
    /\ SubSeq(tx, Len(tx) - 7, Len(tx) - 1) = <<64, 64, 69, 78, 68, 64, 64>>

\* What the run holds in every state: the exit code is set exactly when the
\* words transmitted end in the marker and a further word, it is that word,
\* no earlier tick had seen a marker and a word, and the run succeeds only
\* with exit code 0, a non-zero exit code being an error.
EndOfTest ==
    /\ (exit_code # None) = MarkerThenWord(uart_tx)
    /\ exit_code # None => exit_code = uart_tx[Len(uart_tx)]
    /\ \A k \in 1..(Len(uart_tx) - 1) : ~MarkerThenWord(SubSeq(uart_tx, 1, k))
    /\ running = "ok" => exit_code = 0
    /\ (exit_code \notin {None, 0} /\ Ended)
            => running = "error: Exited with non-zero code"

\* C25: the run loop stops after the first tick at which the last eight words
\* transmitted are @@END@@ and one further word: that word is the exit code,
\* no tick is executed and nothing is transmitted afterwards, and the run
\* succeeds only if the exit code is 0.
C25_EndOfTest ==
    [][/\ EndOfTest'
       /\ MarkerThenWord(uart_tx) => UNCHANGED <<ticks, pc, uart_tx, exit_code>>]_vars

\* `utx 1`, the marker, `utx zr`, `utx 7` under a script expecting 1: the run
\* succeeded after nine ticks and left the last utx unexecuted.
C25_Witness ==
    /\ running = "ok" /\ exit_code = 0 /\ ticks = 9
    /\ uart_tx = <<1>> \o END_OF_TEST \o <<0>>
    /\ FetchOk(cb_mem, pc) /\ FetchAt(cb_mem, pc).mnem = "utx"
    /\ left > 0

\* The run never ticks more often than its budget, succeeds only after the
\* marker and a word were transmitted, and ends in the timeout error when the
\* budget is used up without them.
WithinBudget ==
    /\ ticks <= script.timeout
    /\ running = "ok" => MarkerThenWord(uart_tx)
    /\ (Ended /\ ticks = script.timeout /\ ~MarkerThenWord(uart_tx))
            => running = "error: Timed out"

\* C26: for every program and script the run executes at most `timeout` ticks
\* and then terminates; when the end marker and an exit code were not
\* transmitted within those ticks it ends with the timeout error, never with
\* success.
C26_TickBudget == []WithinBudget /\ <>Ended

\* A budget of seven ticks spent on the seven words of the marker.
C26_Witness ==
    /\ running = "error: Timed out" /\ script.timeout = 7 /\ ticks = 7
    /\ uart_tx = END_OF_TEST


\* The words the script expects before the marker: its output list, each
\* entry modulo 2^16, and nothing when the list is absent.
Expected == IF script.has_output THEN Reference ELSE <<>>

\* C27: a run that reached the end marker with exit code 0 succeeds only if
\* the words transmitted before the marker equal the script's output list
\* (modulo 2^16), an empty or absent list included, and any difference is
\* reported as an error.
C27_OutputCheck ==
    /\ running = "ok" => Received = Expected
    /\ (Ended /\ exit_code = 0 /\ Received # Expected)
            => running = "error: Received data incorrect"

\* The same for the scripts that list at least one expected word.
C27_ListedOutput ==
    script.output # <<>> => C27_OutputCheck


----------------------------------------------------------------------------
(* Properties of the generator, checked under SpecGen.                      *)

GenErrors == {"error: TypeError", "error: AssertionError", "error: exception"}

\* Every immediate of the emitted program fits the word the encoder packs.
EmittedEncodes ==
    \A i \in 1..Len(state.instrs) :
        HasImm(state.instrs[i]) => PackSignedOk(state.instrs[i].ops["imm"])

\* C28: for every bias and instruction count N the generator emits a program
\* (prologue, N instructions, epilogue) that assembles without error and, run
\* on the simulator, transmits '@@END@@' and exit code 0 within N plus a
\* constant number of ticks (16 of the prologue, at most 22 of padding, 8 of
\* the marker and the exit code).
C28_GeneratorLegality ==
    /\ gen.at \notin GenErrors
    /\ gen.at = "saved" =>
        /\ EmittedEncodes
        /\ EndSeen(state.sent) /\ state.sent[Len(state.sent)] = 0
        /\ ticks <= gen.num_instr + 46

\* The same for the jobs run against tick(instr) alone.
C28_AgainstTickInstr ==
    gen.sim = "tick(instr)" => C28_GeneratorLegality

\* What does hold of those jobs: none fails, and the marker and the exit code
\* are transmitted within the ticks.
C28_RunsToMarker ==
    gen.sim = "tick(instr)" =>
        /\ gen.at \notin GenErrors
        /\ gen.at = "saved" =>
            /\ EndSeen(state.sent) /\ state.sent[Len(state.sent)] = 0
            /\ ticks <= gen.num_instr + 46


\* The follower bits a cond value still holds, lowest first, as tags.
RECURSIVE CondTags(_)
CondTags(c) ==
    IF c \in {0, 1} THEN <<>>
    ELSE <<IF c % 2 = 1 THEN "t" ELSE "f">> \o CondTags(c \div 2)

\* The instruction the step has added to the generated sequence.
Emitted == state'.instrs[Len(state'.instrs)]

MarkerAndExit == END_OF_TEST \o <<0>>

C30_ShadowDrained ==
    /\ gen.at = "marker" => cond \in {0, 1}
    /\ gen.at \in {"emitted", "saved"} =>
        /\ Len(state.sent) >= Len(MarkerAndExit)
        /\ SubSeq(state.sent, Len(state.sent) - Len(MarkerAndExit) + 1,
                  Len(state.sent)) = MarkerAndExit
        /\ state.output = SubSeq(state.sent, 1, Len(state.sent) - Len(MarkerAndExit))


----------------------------------------------------------------------------
(* Further properties of the simulator, checked under Spec.                 *)

\* What a tick that skipped its instruction leaves alone and what it sets,
\* the count-op mode apart.
SkippedFrame ==
    /\ regs' = regs /\ pred' = pred /\ cin' = cin /\ out_pins' = out_pins
    /\ max_count' = max_count
    /\ last'.calls = <<Call("fetch", pc, 0)>>
    /\ pc' = pc + (IF HasImm(last'.instr) THEN 2 ELSE 1)
    /\ cond' = cond \div 2
    /\ num_count' = (IF num_count < max_count THEN num_count + 1 ELSE num_count)
    /\ ticks' = ticks + 1

\* C32 as stated: a tick whose instruction is skipped changes no register, no
\* memory word, neither p nor cin, no output pin and not the count-op mode,
\* and calls no callback but fetch; it sets pc to the address plus the size,
\* shifts one bit out of cond and advances the count-op counter and the ticks.
C32_SkippedFrame ==
    [][ (ticks' # ticks /\ ~last'.ran) => (SkippedFrame /\ count_op' = count_op) ]_vars

\* C32 as amended: the same, the count-op mode being kept unless the counter
\* the tick advanced has reached max_count, when the mode ends.
C32_SkippedFrameModeEnds ==
    [][ (ticks' # ticks /\ ~last'.ran) =>
            /\ SkippedFrame
            /\ count_op' = (IF num_count' >= max_count THEN "none" ELSE count_op)
      ]_vars

\* A bl with an immediate was skipped: pc is two past it and lr was not written.
C32_Witness ==
    /\ ~last.ran /\ last.instr.mnem = "bl" /\ HasImm(last.instr)
    /\ pc = last.at + 2 /\ regs[REG_LR] = None /\ cond = 1

\* C34: after any number of ticks the program counter is a 16-bit address,
\* whether the tick ran in sequence or took a branch or jump.
C34_PcRange == pc \in 0..65535

WritebackLoads == {"ld+", "ld-", "+ld", "-ld"}

\* The load with write back ticked last, with a = b other than zr, has run.
SameRegLoad(instr, ran) ==
    /\ ran /\ instr.mnem \in WritebackLoads
    /\ instr.ops["a"] = instr.ops["b"] /\ instr.ops["a"] # REG_ZR

\* C35: a load with base write back whose destination is its base register
\* (not zr) reads one word, at the address computed from the value the
\* register held before the instruction (that value for ld+ and ld-, one
\* above or below it for +ld and -ld), and leaves the loaded word in the
\* register: the loaded word is written after the write back.
C35_LoadWins ==
    [][ SameRegLoad(last'.instr, last'.ran) =>
            LET r    == last'.instr.ops["a"]
                step == IF last'.instr.mnem \in {"ld+", "+ld"} THEN 1 ELSE -1
                mem  == MemCalls(last'.calls)
            IN  /\ Len(mem) = 1 /\ mem[1].cb = "read_mem"
                /\ mem[1].x = (IF PostForm(last'.instr.mnem) THEN Word16(regs[r])
                               ELSE Word16(regs[r] + step))
                /\ regs'[r] = mem[1].y
      ]_vars

\* ld+ r1, r1 with r1 = 1 has read address 1, the memory answered 0xffff, and
\* r1 holds 0xffff and not the stepped base 2.
C35_Witness ==
    /\ SameRegLoad(last.instr, last.ran) /\ last.instr.mnem = "ld+"
    /\ last.instr.ops["a"] = 1
    /\ MemCalls(last.calls) = <<Call("read_mem", 1, 65535)>>
    /\ regs[1] = 65535

----------------------------------------------------------------------------
(* Properties of shifts and rotates, checked under SpecShift. *)

\* The word a shift or rotate of the 16-bit word b is to give, carryIn being
\* the bit srl shifts in, and the bit it is to leave in cin.
ShiftedWord(mnem, b, carryIn) ==
    IF mnem = "srl" THEN (b \div 2) + 32768 * carryIn
    ELSE IF mnem = "sra" THEN (b \div 2) + 32768 * (b \div 32768)
    ELSE IF mnem = "ror" THEN (b \div 2) + 32768 * (b % 2)
    ELSE ((2 * b) % 65536) + (b \div 32768)

ShiftedOut(mnem, b) == IF mnem = "rol" THEN b \div 32768 ELSE b % 2

\* C36: srl, sra, ror and rol of the word in register b give b shifted right
\* by one with bit 15 taken from the latched carry in carry mode and 0
\* otherwise (srl), with bit 15 kept (sra), or b rotated by one (ror, rol);
\* the result is a 16-bit word and cin becomes the bit shifted out.
C36_Shifts ==
    [][ (ticks' # ticks /\ last'.ran /\ last'.instr.mnem \in ShiftMnems) =>
            LET mnem == last'.instr.mnem
                a    == last'.instr.ops["a"]
                b    == regs[last'.instr.ops["b"]]
                in   == IF count_op = "carry" THEN cin ELSE 0
            IN  /\ ShiftedWord(mnem, b, in) \in 0..65535
                /\ a # REG_ZR => regs'[a] = ShiftedWord(mnem, b, in)
                /\ cin' = ShiftedOut(mnem, b)
      ]_vars

\* In carry mode, after `add zr, r1, r1` carried out of r1 = 0x8001,
\* `srl r2, r1` has given 0xc000 and left bit 0 of r1 in cin.
C36_Witness ==
    /\ last.ran /\ last.instr.mnem = "srl" /\ last.instr.ops["a"] = 2
    /\ count_op = "carry" /\ regs[1] = 32769 /\ regs[2] = 49152 /\ cin = 1

----------------------------------------------------------------------------
(* Properties of assembled programs on the simulator, checked under         *)
(* SpecExec.                                                                *)

\* The item whose first word lies at address at (0 if there is none), and
\* whether it is an instruction written without a suffix.
ItemAt(at) ==
    IF \E i \in 1..Len(items) : AddressOf(i) = at
    THEN CHOOSE i \in 1..Len(items) : AddressOf(i) = at
    ELSE 0

UntaggedAt(at) ==
    /\ running # "idle" /\ ItemAt(at) # 0
    /\ ~IsRaw(items[ItemAt(at)].item) /\ items[ItemAt(at)].item.cond = "none"

\* Item i is one of the k items placed after the shadow setter fetched at
\* address at.
InWindowOf(at, i) ==
    /\ ItemAt(at) # 0 /\ ItemAt(at) < i
    /\ i - ItemAt(at) <= NumCond(items[ItemAt(at)].item)

\* C33 as stated: an instruction written without a suffix is fetched with no
\* follower bits pending, and runs.
C33_UntaggedRuns ==
    (ticks > 0 /\ UntaggedAt(last.at)) => (last.ran /\ last.instr.cond = "none")

\* C33: an instruction written without a suffix is fetched with follower bits
\* pending only if a branch or jump was taken since the shadow setter ran, or
\* the setter was not fetched at the first word of an item, or the
\* instruction is one of the k items placed after the setter; it is skipped
\* only if it was fetched with bits pending.
C33_UntaggedPending ==
    [][ (ticks' # ticks /\ UntaggedAt(last'.at)) =>
            /\ ~last'.ran => last'.instr.cond # "none"
            /\ last'.instr.cond # "none" =>
                    \/ shadow.moved
                    \/ ItemAt(shadow.at) = 0
                    \/ InWindowOf(shadow.at, ItemAt(last'.at))
      ]_vars

\* `cex 2`, `b.f 2`, `add.t`, `add`: the branch was taken with the bit of the
\* second tag pending, and the add without suffix at its target was skipped.
C33_Witness ==
    /\ UntaggedAt(last.at) /\ ~last.ran /\ last.instr.cond = ".t"
    /\ last.before.mnem = "b" /\ last.before.ran
    /\ shadow.by = "cex" /\ shadow.moved /\ ~InWindowOf(shadow.at, ItemAt(last.at))

----------------------------------------------------------------------------
(* Properties of merge_same, checked under SpecDump. *)

\* The last line of the run of lines with the value of line i.
RECURSIVE RunEndFrom(_, _)
RunEndFrom(lines, i) ==
    IF i < Len(lines) /\ lines[i + 1].value = lines[i].value
    THEN RunEndFrom(lines, i + 1) ELSE i

Printed(line) == [addr |-> line.addr, value |-> line.value]

\* What merging is to print from line i on: a run of one or two lines as it
\* is, a longer run as its first line, ' *' and its last line.
RECURSIVE MergedFrom(_, _)
MergedFrom(lines, i) ==
    IF i > Len(lines) THEN <<>>
    ELSE Let(RunEndFrom(lines, i), LAMBDA j :
             (IF j - i + 1 < 3 THEN [k \in 1..(j - i + 1) |-> Printed(lines[i + k - 1])]
              ELSE <<Printed(lines[i]), Star, Printed(lines[j])>>)
             \o MergedFrom(lines, j + 1))

\* C37: merge_same leaves runs of one or two lines with the same payload as
\* they are and prints a run of three or more as its first line, ' *' and its
\* last line, every printed line with the address of the line it came from.
C37_MergeSame ==
    [][ (stage = "decoded" /\ stage' # stage /\ listing # <<>>) =>
            /\ stage' = "merged"
            /\ listing' = MergedFrom(DumpLines(image, listing), 1)
      ]_vars

\* The same, for listings whose items all have one size.
C37_MergeSameOneSize ==
    [][ (stage = "decoded" /\ stage' # stage
         /\ \A i \in 1..Len(listing) : Size(listing[i].item) = Size(listing[1].item)) =>
            /\ stage' = "merged"
            /\ listing' = MergedFrom(DumpLines(image, listing), 1)
      ]_vars

----------------------------------------------------------------------------
(* Properties of the UART pair, checked under SpecUart. *)

\* C40: with the transmitter's level fed to the receiver on every clock, and
\* ready never asserted in idle with an empty queue, the receiver's callback
\* has been called once for each word that has left the queue, in queue
\* order and with the word as it was queued, and each word left the queue
\* after 16 data bits.
C40_RoundTrip ==
    wire.at = "run" =>
        /\ wire.got = SubSeq(wire.words, 1, Len(wire.words) - Len(wire.tx.data))
        /\ Len(wire.frames) = Len(wire.got)
        /\ \A i \in 1..Len(wire.frames) : wire.frames[i] = 16

\* Two words, 0xa55a and then 0x8001, have gone through.
C40_Witness ==
    /\ wire.at = "run" /\ wire.words = <<42330, 32769>> /\ wire.got = wire.words
    /\ wire.tx.data = <<>> /\ wire.frames = <<16, 16>>

----------------------------------------------------------------------------
(* Properties of the SQI memory, checked under SpecSqi. *)

\* The transaction in progress began with the mode nibbles of READ.
SqiReading == Len(sqi.ins) >= 2 /\ sqi.ins[1] = 0 /\ sqi.ins[2] = READ

\* The address its four address nibbles spell, most significant first.
SqiAddress == sqi.ins[3] * 4096 + sqi.ins[4] * 256 + sqi.ins[5] * 16 + sqi.ins[6]

\* The nibble due on the falling edge after rising edge k of a read: the
\* high nibble of the byte on even steps, the low nibble on odd ones, the
\* address moving on after each byte and wrapping at 0xffff.
SqiNibble(k) ==
    Let(sqi.data[(SqiAddress + ((k - 8) \div 2)) % 65536], LAMBDA byte :
        IF (k - 8) % 2 = 0 THEN byte \div 16 ELSE byte % 16)

SqiReadOrder ==
    sqi.at = "run" =>
        /\ sqi.idle_out = None
        /\ \A k \in 1..Len(sqi.outs) :
            IF k >= 8 /\ SqiReading THEN sqi.outs[k] = SqiNibble(k)
            ELSE sqi.outs[k] = None

\* C39: with chip select low from the inactive state, after the two mode
\* nibbles of READ, four address nibbles and two dummy rising edges, the
\* falling edges return the high and then the low nibble of the byte at the
\* address, then of the next, the address wrapping from 0xffff to 0; every
\* falling edge before that returns nothing; and a rising edge with chip
\* select high leaves the memory inactive whatever its state was.
C39_ReadTransaction ==
    [][ /\ SqiReadOrder'
        /\ (sqi.at = "run" /\ sqi.edge = "rise" /\ sqi'.cs = 1) =>
                sqi'.state = "none" /\ sqi'.mode = None /\ sqi'.addr = None
      ]_vars

\* A read from 0xffff has returned a, 5 (the byte 0xa5 at 0xffff) and then 3,
\* c (the byte 0x3c at address 0).
C39_Witness ==
    /\ sqi.at = "run" /\ SqiReading /\ Len(sqi.ins) = 6 /\ SqiAddress = 65535
    /\ sqi.outs = <<None, None, None, None, None, None, None, 10, 5, 3, 12>>

----------------------------------------------------------------------------
(* Properties of the bench's UART scoreboard, checked under SpecBench. *)

\* Every pair popped while reference words remained was held against the
\* next of them and set nothing; one that differs ended the bench.
PairsAgainstReference ==
    \A i \in 1..Len(tb.popped) :
        i <= Len(tb.ref0) =>
            /\ tb.popped[i].ref = tb.ref0[i] /\ ~tb.popped[i].sets
            /\ \/ tb.popped[i].sim = tb.popped[i].rtl /\ tb.popped[i].rtl = tb.ref0[i]
               \/ i = Len(tb.popped) /\ tb.at \in {"error: utx data", "error: utx ref"}

\* As many words have left each queue as pairs were popped.
PoppedInPairs ==
    /\ Len(tb.popped) + Len(tb.sim_utx) = tb.sim_n
    /\ Len(tb.popped) + Len(tb.rtl_utx) = tb.rtl_n

\* C38: the scoreboard pops the two queues in pairs; every pair popped while
\* reference words remain is sim = rtl = the next reference word, or the
\* bench fails; and exit_code is set, and end_of_test signalled, by the first
\* pair popped after the reference is exhausted and by no other.
C38_Scoreboard ==
    tb.at # "idle" =>
        /\ PoppedInPairs /\ PairsAgainstReference
        /\ \A i \in 1..Len(tb.popped) :
            i > Len(tb.ref0) =>
                (tb.popped[i].sets <=> (i = Len(tb.ref0) + 1 /\ tb.popped[i].sim = tb.popped[i].rtl))
        /\ tb.end_of_test <=> tb.exit_code # None
        /\ tb.exit_code # None => tb.exit_code = tb.popped[Len(tb.ref0) + 1].rtl

\* The same with every pair popped after the reference is exhausted setting
\* exit_code, so that it holds the word of the last of them.
C38_LastPairSets ==
    tb.at # "idle" =>
        /\ PoppedInPairs /\ PairsAgainstReference
        /\ \A i \in 1..Len(tb.popped) :
            i > Len(tb.ref0) =>
                (tb.popped[i].sets <=> tb.popped[i].sim = tb.popped[i].rtl)
        /\ tb.end_of_test <=> tb.exit_code # None
        /\ tb.exit_code # None =>
                \E i \in (Len(tb.ref0) + 1)..Len(tb.popped) :
                    /\ tb.popped[i].sets /\ tb.exit_code = tb.popped[i].rtl
                    /\ \A j \in (i + 1)..Len(tb.popped) : ~tb.popped[j].sets

----------------------------------------------------------------------------
(* Properties of the generator's memory bookkeeping, checked under SpecMem. *)

====
